---- MODULE Spec2Model ----
(***************************************************************************)
(* Unified AI Council: the command validator, the member runner (runWsl)   *)
(* and the council coordinator (CouncilOrchestrator.runCouncil) as state   *)
(* machines.                                                               *)
(*                                                                         *)
(* Strings that the code inspects character by character (the configured   *)
(* CLI commands) are sequences of one-character strings.  Texts that the   *)
(* code only builds and passes on (member outputs, prompts, answers) are   *)
(* strings.                                                                *)
(***************************************************************************)
EXTENDS Integers, Sequences, FiniteSets, TLC

(***************************************************************************)
(* Bounds                                                                  *)
(***************************************************************************)
\* longest command, counted in atoms (see Atoms), given to the validator
MaxAtoms == 3

\* most arguments after the executable of a command (see ArgCommands)
MaxArgs == 2

\* calls of load() followed
MaxLoads == 2

\* calls of dispose() followed
MaxDisposes == 2

\* EmbeddedLlm instances a coordinator constructs
MaxInstances == 3

\* direct calls of CouncilOrchestrator.dispose() followed
MaxDisposeCalls == 4

(***************************************************************************)
(* Character strings                                                       *)
(***************************************************************************)
\* the backtick character (not writable inside a string literal here)
BACKTICK == "BACKTICK"

\* the words commands are assembled from; every other atom is one character
Words == {"codex", "claude", "gemini", "rm"}

\* the characters of an atom
Chars(a) ==
  CASE a = "codex"  -> <<"c", "o", "d", "e", "x">>
    [] a = "claude" -> <<"c", "l", "a", "u", "d", "e">>
    [] a = "gemini" -> <<"g", "e", "m", "i", "n", "i">>
    [] a = "rm"     -> <<"r", "m">>
    [] OTHER        -> <<a>>

\* the building blocks of the commands that are enumerated
Atoms == Words \cup
  {" ", "\n", "\t", "\r", "/", "-", "a", "!", "'", "\"",
   ";", "&", "|", BACKTICK, "<", ">", "$", "(", "{"}

RECURSIVE Expand(_)
\* the character string spelled by a sequence of atoms
Expand(as) == IF as = <<>> THEN <<>> ELSE Chars(Head(as)) \o Expand(Tail(as))

\* JavaScript \s restricted to the alphabet
IsSpace(c) == c \in {" ", "\n", "\t", "\r"}

\* JavaScript \w restricted to the alphabet
IsWord(c) == c \in {"a", "c", "d", "e", "g", "i", "l", "m", "n", "o", "r", "u", "x", "_", "0"}

RECURSIVE TrimStart(_)
TrimStart(s) == IF s # <<>> /\ IsSpace(Head(s)) THEN TrimStart(Tail(s)) ELSE s

RECURSIVE TrimEnd(_)
TrimEnd(s) ==
  IF s # <<>> /\ IsSpace(s[Len(s)]) THEN TrimEnd(SubSeq(s, 1, Len(s) - 1)) ELSE s

\* String.prototype.trim
Trim(s) == TrimEnd(TrimStart(s))

RECURSIVE ReplaceCr(_)
\* cmd.replace(/\r\n|\r/g, '\n')
ReplaceCr(s) ==
  IF s = <<>> THEN <<>>
  ELSE IF Head(s) = "\r"
       THEN IF Len(s) >= 2 /\ s[2] = "\n"
            THEN <<"\n">> \o ReplaceCr(SubSeq(s, 3, Len(s)))
            ELSE <<"\n">> \o ReplaceCr(Tail(s))
       ELSE <<Head(s)>> \o ReplaceCr(Tail(s))

RECURSIVE SplitOn(_, _, _)
\* s.split(sep), cur being the piece collected so far
SplitOn(s, sep, cur) ==
  IF s = <<>> THEN <<cur>>
  ELSE IF Head(s) = sep
       THEN <<cur>> \o SplitOn(Tail(s), sep, <<>>)
       ELSE SplitOn(Tail(s), sep, Append(cur, Head(s)))

RECURSIVE JoinWith(_, _)
\* pieces.join(sep)
JoinWith(pieces, sep) ==
  IF pieces = <<>> THEN <<>>
  ELSE IF Len(pieces) = 1 THEN pieces[1]
       ELSE pieces[1] \o <<sep>> \o JoinWith(Tail(pieces), sep)

RECURSIVE TrimNonEmpty(_)
\* .map((l) => l.trim()).filter(Boolean)
TrimNonEmpty(pieces) ==
  IF pieces = <<>> THEN <<>>
  ELSE IF Trim(Head(pieces)) = <<>>
       THEN TrimNonEmpty(Tail(pieces))
       ELSE <<Trim(Head(pieces))>> \o TrimNonEmpty(Tail(pieces))

RECURSIVE CollapseSpaces(_)
\* s.replace(/\s+/g, ' ')
CollapseSpaces(s) ==
  IF s = <<>> THEN <<>>
  ELSE IF IsSpace(Head(s))
       THEN <<" ">> \o CollapseSpaces(TrimStart(s))
       ELSE <<Head(s)>> \o CollapseSpaces(Tail(s))

normalizeWhitespace(cmd) ==
  Trim(CollapseSpaces(JoinWith(TrimNonEmpty(SplitOn(ReplaceCr(cmd), "\n", <<>>)), " ")))

RECURSIVE TakeNonSpace(_)
TakeNonSpace(s) ==
  IF s = <<>> \/ IsSpace(Head(s)) THEN <<>> ELSE <<Head(s)>> \o TakeNonSpace(Tail(s))

\* a first token that runs to the end of the command
firstTokenWhole(cmd) == Trim(cmd)

\* cmd.trim().match(/^(\S+)/): the first run of non-space characters, <<>> for null
firstToken(cmd) == TakeNonSpace(Trim(cmd))

\* some character of s is in the set cs
HasCharIn(s, cs) == \E i \in 1..Len(s) : s[i] \in cs

\* the two-character sequence a b occurs in s
HasPair(s, a, b) == \E i \in 1..(Len(s) - 1) : s[i] = a /\ s[i + 1] = b

\* (s.match(/c/g) ?? []).length
CountChar(s, c) == Cardinality({i \in 1..Len(s) : s[i] = c})

\* exe.split('/').pop()
Basename(exe) == LET parts == SplitOn(exe, "/", <<>>) IN parts[Len(parts)]

DEFAULT_ALLOWED_EXECUTABLES == {Chars("codex"), Chars("claude"), Chars("gemini")}

\* an executable class that admits every character
IsExeCharAny(c) == TRUE

\* the class [A-Za-z0-9._\/-] restricted to the alphabet
IsExeChar(c) == IsWord(c) \/ c \in {".", "/", "-"}

\* a forbidden class that leaves the redirections out
ForbiddenCharsNoRedirect == {";", "&", "|", BACKTICK}

\* the class [;&| backtick <>]
ForbiddenChars == {";", "&", "|", BACKTICK, "<", ">"}

\* /(\$\(|\$\{|\$\w)/.test(s)
HasDollarExpansion(s) ==
  \E i \in 1..(Len(s) - 1) :
     s[i] = "$" /\ (s[i + 1] = "(" \/ s[i + 1] = "{" \/ IsWord(s[i + 1]))

Rejected(why) == [ok |-> FALSE, normalized |-> <<>>, reason |-> why]

validateCliCommand(cmd) ==
  LET normalized == normalizeWhitespace(cmd)
      exe == firstToken(normalized)
  IN IF normalized = <<>> THEN Rejected("Empty command.")
     ELSE IF HasCharIn(cmd, {"\r", "\n"})
       THEN Rejected("Newlines are not allowed in CLI command.")
     ELSE IF HasCharIn(normalized, ForbiddenChars)
       THEN Rejected("Command contains forbidden shell metacharacters.")
     ELSE IF HasDollarExpansion(normalized)
       THEN Rejected("Command contains forbidden $-expansion or substitution.")
     ELSE IF HasPair(normalized, "&", "&") \/ HasPair(normalized, "|", "|")
       THEN Rejected("Command chaining is not allowed.")
     ELSE IF CountChar(normalized, "'") % 2 # 0 \/ CountChar(normalized, "\"") % 2 # 0
       THEN Rejected("Unbalanced quotes in command.")
     ELSE IF exe = <<>> THEN Rejected("Unable to parse executable.")
     ELSE IF Basename(exe) \notin DEFAULT_ALLOWED_EXECUTABLES
       THEN Rejected("Executable must be one of: codex, claude, gemini")
     ELSE IF \E i \in 1..Len(exe) : ~IsExeChar(exe[i])
       THEN Rejected("Executable contains invalid characters.")
     ELSE [ok |-> TRUE, normalized |-> normalized, reason |-> ""]

(***************************************************************************)
(* Texts (JavaScript strings the code only builds, trims and compares)     *)
(***************************************************************************)
\* the character of the string s at position i
CharAt(s, i) == SubSeq(s, i, i)

IsSpaceStr(c) == c \in {" ", "\n", "\t", "\r"}

RECURSIVE StrTrimStart(_)
StrTrimStart(s) == IF s # "" /\ IsSpaceStr(Head(s)) THEN StrTrimStart(Tail(s)) ELSE s

RECURSIVE StrTrimEnd(_)
StrTrimEnd(s) ==
  IF s # "" /\ IsSpaceStr(CharAt(s, Len(s)))
  THEN StrTrimEnd(SubSeq(s, 1, Len(s) - 1)) ELSE s

\* String.prototype.trim on a text
StrTrim(s) == StrTrimEnd(StrTrimStart(s))

RECURSIVE CharsToStr(_)
\* the text spelled by a character sequence
CharsToStr(cs) ==
  IF cs = <<>> THEN ""
  ELSE (IF Head(cs) = BACKTICK THEN "BACKTICK" ELSE Head(cs)) \o CharsToStr(Tail(cs))

(***************************************************************************)
(* Mode profiles (modes.ts)                                                *)
(***************************************************************************)
CouncilMembers == <<"codex", "claude", "gemini">>

Members == {"codex", "claude", "gemini"}

MODE_PROFILES == [
  plan |-> [
    name |-> "plan",
    councilGoal |-> "Produce a clear plan with risks, tradeoffs, and checkpoints.",
    roles |-> [
      codex  |-> [systemRole |-> "Senior software architect.",
                  instruction |-> "Return a structured plan with milestones and tests."],
      claude |-> [systemRole |-> "Critical reviewer.",
                  instruction |-> "Challenge the plan; find missing requirements and risks."],
      gemini |-> [systemRole |-> "VS Code UX/devex specialist.",
                  instruction |-> "Make the plan implementable and smooth in VS Code."]],
    synthesis |-> [
      rubric |-> "Prefer specificity; resolve conflicts; state assumptions when needed.",
      outputStyle |-> "Deliver: 1) Plan, 2) Risks, 3) Next actions."]],
  refactor |-> [
    name |-> "refactor",
    councilGoal |-> "Improve code with minimal behavior change; prioritize clarity and safety.",
    roles |-> [
      codex  |-> [systemRole |-> "Refactoring specialist.",
                  instruction |-> "Propose small safe refactors with verification."],
      claude |-> [systemRole |-> "Regression-avoidance reviewer.",
                  instruction |-> "Flag regression risks and add tests/checks."],
      gemini |-> [systemRole |-> "Extension best-practices guide.",
                  instruction |-> "Ensure changes match VS Code patterns."]],
    synthesis |-> [
      rubric |-> "Refactor in small steps with validation after each step.",
      outputStyle |-> "Deliver: refactor steps + reasoning + verification checklist."]],
  debug |-> [
    name |-> "debug",
    councilGoal |-> "Diagnose issues, propose root causes, and provide a reliable fix path.",
    roles |-> [
      codex  |-> [systemRole |-> "Debugger.",
                  instruction |-> "Use logs/repro; propose likely causes and concrete fixes."],
      claude |-> [systemRole |-> "Adversarial tester.",
                  instruction |-> "List failure modes, races, WSL pitfalls."],
      gemini |-> [systemRole |-> "Observability engineer.",
                  instruction |-> "Recommend diagnostics and better errors."]],
    synthesis |-> [
      rubric |-> "Prefer reproducibility and step-by-step confirmation.",
      outputStyle |-> "Deliver: suspected causes, how to confirm, fix steps."]],
  act |-> [
    name |-> "act",
    councilGoal |-> "Produce actionable outputs: code, commands, and verification steps.",
    roles |-> [
      codex  |-> [systemRole |-> "Builder.",
                  instruction |-> "Provide runnable code with file paths and commands."],
      claude |-> [systemRole |-> "Security/correctness reviewer.",
                  instruction |-> "Double-check safety, correctness, and edge cases."],
      gemini |-> [systemRole |-> "Integration engineer.",
                  instruction |-> "Ensure commands work in WSL/VS Code; note quirks."]],
    synthesis |-> [
      rubric |-> "Output must be directly usable; prefer precise paths/commands.",
      outputStyle |-> "Deliver: implementation steps + code snippets + verification."]]]

(***************************************************************************)
(* Settings (settings.ts): the configuration is read when the code asks    *)
(***************************************************************************)
\* Settings.safeCommand for a member, raw being the configured value
safeCommand(member, raw) ==
  LET fallback == Chars(member)
      trimmed == IF Trim(raw) = <<>> THEN fallback ELSE Trim(raw)
      r == validateCliCommand(trimmed)
  IN IF r.ok /\ r.normalized # <<>>
     THEN [cmd |-> r.normalized, error |-> ""]
     ELSE IF r.ok THEN [cmd |-> trimmed, error |-> ""]
     ELSE [cmd |-> fallback,
           error |-> "Invalid cli." \o member \o ".command: " \o r.reason]

DefaultCliTimeoutMs == 180000

\* Settings.cliTimeoutMs, raw being the configured number
cliTimeoutMs(raw) == IF raw > 5000 THEN raw ELSE DefaultCliTimeoutMs

\* Settings.orchestratorEngine, raw being the configured value
orchestratorEngine(raw) ==
  IF raw = "ollama" THEN "ollama" ELSE IF raw = "nano" THEN "nano" ELSE "embedded"

(***************************************************************************)
(* Member runner (wslCliRunner.ts)                                         *)
(***************************************************************************)
\* a command lookup that passes the error of the setting over
getCliCommandUnchecked(member, raw) ==
  [cmd |-> safeCommand(member, raw).cmd, error |-> ""]

\* WslCliRunner.getCliCommand
getCliCommand(member, raw) ==
  LET res == safeCommand(member, raw)
  IN IF res.error # ""
     THEN [cmd |-> <<>>, error |-> "Invalid CLI command in settings: " \o res.error]
     ELSE [cmd |-> res.cmd, error |-> ""]

\* the text runCouncilMember returns for a command that failed validation
ConfigErrorText(member, error) ==
  "[" \o member \o "] Configuration error: " \o error \o ". Please check your settings."

buildPayload(role, prompt) ==
  "SYSTEM ROLE:\n" \o role.systemRole \o "\n\nINSTRUCTIONS:\n" \o role.instruction
    \o "\n\nPROMPT:\n" \o prompt \o "\n"

\* a timeout message that does not name the member
TimeoutMessageNoMember(member, timeoutMs) ==
  "timed out after " \o ToString(timeoutMs) \o "ms"

\* the message of the Error the timer handler rejects with
TimeoutMessage(member, timeoutMs) ==
  member \o " timed out after " \o ToString(timeoutMs) \o "ms"

\* the text the 'close' handler resolves with; code "null" is a null exit code
CloseText(member, out, err, code) ==
  LET text == StrTrim(out \o (IF err # "" THEN "\n[stderr]\n" \o err ELSE ""))
  IN IF text # "" THEN text
     ELSE "[" \o member \o "] (no output) exit="
            \o (IF code = "null" THEN "unknown" ELSE code)

\* String(reason) for the Error objects a member run rejects with
ErrorToString(message) == "Error: " \o message

(***************************************************************************)
(* Prompt builder (nanoOrchestrator.ts) and the coordinator's own contract *)
(***************************************************************************)
\* NanoOrchestrator.buildResponseContract
buildResponseContract ==
  "RESPONSE CONTRACT:\n- Be concrete and self-contained.\n"
    \o "- If giving code, include full blocks + file paths.\n"
    \o "- If uncertain, state assumptions + safe default.\n"
    \o "- Do not invent unknown commands."

\* mode.toUpperCase() for the mode names
ModeUpper(mode) ==
  CASE mode = "plan" -> "PLAN" [] mode = "refactor" -> "REFACTOR"
    [] mode = "debug" -> "DEBUG" [] mode = "act" -> "ACT"

\* the template shared by the two builders; label is USER or TASK
PromptTemplate(input, label, task) ==
  "You are one member of a 3-CLI council (Codex, Claude Code, Gemini).\n"
    \o "MODE: " \o ModeUpper(input.mode) \o "\nGOAL: " \o input.councilGoal
    \o "\n\n" \o label \o ":\n" \o task
    \o "\n\nPROJECT MEMORY:\n" \o input.memoryContext
    \o "\n\nWORKSPACE HINTS:\n" \o input.fileContext
    \o "\n\n" \o buildResponseContract
    \o "\nProvide your best contribution for this mode."

\* buildCouncilPrompt as if it returned a contract of its own wording
\* beside the prompt
buildCouncilPromptOtherContract(input) ==
  [councilPrompt |-> PromptTemplate(input, "USER", input.userText),
   responseContract |-> "RESPONSE CONTRACT:\n- Be concrete."]

\* NanoOrchestrator.buildCouncilPrompt
buildCouncilPrompt(input) ==
  [councilPrompt |-> PromptTemplate(input, "USER", input.userText),
   responseContract |-> buildResponseContract]

\* buildCouncilPromptWithLlm as if it put whatever came of generate, the
\* error's message included, in the place of the task
buildCouncilPromptWithLlmUncaught(input, gen) ==
  [councilPrompt |-> PromptTemplate(input, "TASK", gen.text),
   responseContract |-> buildResponseContract]

\* NanoOrchestrator.buildCouncilPromptWithLlm; gen is what llm.generate did
buildCouncilPromptWithLlm(input, gen) ==
  LET optimizedTask == IF gen.ok THEN gen.text ELSE input.userText
  IN [councilPrompt |-> PromptTemplate(input, "TASK", optimizedTask),
      responseContract |-> buildResponseContract]

\* CouncilOrchestrator.buildResponseContractString (no profile lists
\* required sections or banned content)
buildResponseContractString(profile) ==
  "RESPONSE CONTRACT" \o "\n\n" \o "No required sections." \o "\n\n"
    \o "No explicit banned content." \o "\n\n"
    \o (IF StrTrim(profile.synthesis.outputStyle) # ""
        THEN "Style: " \o StrTrim(profile.synthesis.outputStyle)
        ELSE "Style: (unspecified)")
    \o "\n\n"
    \o "Keep answers concrete: file paths, commands, and step-by-step instructions when relevant."

\* the prompt built when the architect pre-pass is off
PlainPrompt(profile, userText) ==
  profile.councilGoal \o "\n\nUSER:\n" \o userText
    \o "\n\nRespond with the best possible answer for this mode."

(***************************************************************************)
(* Heuristic synthesis (synthesizer.ts)                                    *)
(***************************************************************************)
LowerLetters == "abcdefghijklmnopqrstuvwxyz"

UpperLetters == "ABCDEFGHIJKLMNOPQRSTUVWXYZ"

Digits == "0123456789"

CharSet(s) == {CharAt(s, i) : i \in 1..Len(s)}

UpperSet == CharSet(UpperLetters)

WordChars == CharSet(LowerLetters) \cup UpperSet \cup CharSet(Digits) \cup {"_"}

\* \w
IsWordChar(c) == c \in WordChars

\* the lower-case letter of each upper-case letter
LowerOf == [c \in UpperSet |->
              CharAt(LowerLetters, CHOOSE i \in 1..26 : CharAt(UpperLetters, i) = c)]

LowerChar(c) == IF c \in UpperSet THEN LowerOf[c] ELSE c

RECURSIVE toLowerCase(_)
\* String.prototype.toLowerCase, by halves
toLowerCase(s) ==
  IF Len(s) = 0 THEN ""
  ELSE IF Len(s) = 1 THEN LowerChar(s)
  ELSE LET h == Len(s) \div 2
       IN toLowerCase(SubSeq(s, 1, h)) \o toLowerCase(SubSeq(s, h + 1, Len(s)))

\* s.startsWith(p)
StartsWith(s, p) == Len(s) >= Len(p) /\ SubSeq(s, 1, Len(p)) = p

\* p occurs in s at position i
OccursAt(s, p, i) == i + Len(p) - 1 <= Len(s) /\ SubSeq(s, i, i + Len(p) - 1) = p

\* the regular expression \b at the gap before position i of s
WordBoundary(s, i) ==
  LET before == i > 1 /\ IsWordChar(CharAt(s, i - 1))
      after == i <= Len(s) /\ IsWordChar(CharAt(s, i))
  IN before # after

\* s.split(/\r?\n/): the pieces between the line feeds, a carriage return
\* before a line feed belonging to the separator
SplitLines(s) ==
  LET nl == {i \in 1..Len(s) : CharAt(s, i) = "\n"}
      \* position of the k-th line feed; 0 and Len(s) + 1 bracket the text
      at(k) == IF k = 0 THEN 0
               ELSE IF k > Cardinality(nl) THEN Len(s) + 1
               ELSE CHOOSE i \in nl : Cardinality({j \in nl : j < i}) = k - 1
      piece(k) ==
        LET from == at(k - 1) + 1
            to == at(k) - 1
            cut == IF at(k) <= Len(s) /\ to >= from /\ CharAt(s, to) = "\r"
                   THEN to - 1 ELSE to
        IN SubSeq(s, from, cut)
  IN [k \in 1..(Cardinality(nl) + 1) |-> piece(k)]

RECURSIVE TrimmedNonEmpty(_)
\* .map(l => l.trim()).filter(Boolean)
TrimmedNonEmpty(ls) ==
  IF ls = <<>> THEN <<>>
  ELSE IF StrTrim(Head(ls)) = "" THEN TrimmedNonEmpty(Tail(ls))
  ELSE <<StrTrim(Head(ls))>> \o TrimmedNonEmpty(Tail(ls))

RECURSIVE JoinLines(_, _)
\* ls.join(sep)
JoinLines(ls, sep) ==
  IF ls = <<>> THEN ""
  ELSE IF Len(ls) = 1 THEN ls[1]
  ELSE ls[1] \o sep \o JoinLines(Tail(ls), sep)

StartWords ==
  {"run", "open", "set", "add", "remove", "update", "create", "install", "verify",
   "check", "use", "ensure", "then", "next", "finally", "1)", "2)", "3)"}

\* the alternatives of containsPath that begin with a word character
PathWords == {"src/", "package.json", "tsconfig.json", "settings.json", "wsl.exe"}

\* ConsensusSynthesizer.looksActionable
looksActionable(line) ==
  LET l == toLowerCase(line)
      \* the line after an optional bullet marker and its spaces
      afterBullet ==
        IF Len(l) >= 2 /\ Head(l) \in {"-", "*"} /\ IsSpaceStr(CharAt(l, 2))
        THEN StrTrimStart(Tail(l)) ELSE l
      starts == \E w \in StartWords : StartsWith(l, w) \/ StartsWith(afterBullet, w)
      containsPath ==
        \E i \in 1..Len(l) :
          /\ WordBoundary(l, i)
          /\ \/ \E w \in PathWords : OccursAt(l, w, i)
             \/ OccursAt(l, ".vscode", i)
             \/ OccursAt(l, "bash", i) /\ WordBoundary(l, i + 4)
  IN starts \/ containsPath

RECURSIVE CollectActionableAll(_, _)
\* the loop as if it went through every line
CollectActionableAll(ls, acc) ==
  IF ls = <<>> THEN acc
  ELSE CollectActionableAll(Tail(ls),
         IF looksActionable(Head(ls)) THEN Append(acc, Head(ls)) ELSE acc)

RECURSIVE CollectActionable(_, _)
\* the loop of mergeHeuristically: push, then stop at 18
CollectActionable(ls, acc) ==
  IF ls = <<>> THEN acc
  ELSE LET acc2 == IF looksActionable(Head(ls)) THEN Append(acc, Head(ls)) ELSE acc
       IN IF Len(acc2) >= 18 THEN acc2 ELSE CollectActionable(Tail(ls), acc2)

RECURSIVE dedupeFrom(_, _, _)
dedupeFrom(arr, seen, out) ==
  IF arr = <<>> THEN out
  ELSE LET k == toLowerCase(Head(arr))
       IN IF k \in seen THEN dedupeFrom(Tail(arr), seen, out)
          ELSE dedupeFrom(Tail(arr), seen \cup {k}, Append(out, Head(arr)))

\* dedupe as if it compared the lines as they are
dedupeExact(arr) ==
  LET keep == {i \in 1..Len(arr) : \A j \in 1..(i - 1) : arr[j] # arr[i]}
  IN [k \in 1..Cardinality(keep) |->
        arr[CHOOSE i \in keep : Cardinality({j \in keep : j < i}) = k - 1]]

\* ConsensusSynthesizer.dedupe
dedupe(arr) == dedupeFrom(arr, {}, <<>>)

\* arr.slice(0, n)
Slice0(arr, n) == SubSeq(arr, 1, IF Len(arr) < n THEN Len(arr) ELSE n)

\* ConsensusSynthesizer.trimTo
trimTo(s, max) ==
  IF Len(s) <= max THEN s ELSE StrTrimEnd(SubSeq(s, 1, max - 1)) \o "..."

\* formatCouncilNotes as if it listed only the members that answered
formatCouncilNotesAnswered(council) ==
  JoinLines(
    (IF StartsWith(council.codex, "ERROR:") THEN <<>>
     ELSE <<"--- Codex ---\n" \o trimTo(council.codex, 1800)>>)
    \o (IF StartsWith(council.claude, "ERROR:") THEN <<>>
        ELSE <<"--- Claude ---\n" \o trimTo(council.claude, 1800)>>)
    \o (IF StartsWith(council.gemini, "ERROR:") THEN <<>>
        ELSE <<"--- Gemini ---\n" \o trimTo(council.gemini, 1800)>>),
    "\n\n")

\* ConsensusSynthesizer.formatCouncilNotes
formatCouncilNotes(council) ==
  "--- Codex ---\n" \o trimTo(council.codex, 1800) \o "\n\n"
    \o "--- Claude ---\n" \o trimTo(council.claude, 1800) \o "\n\n"
    \o "--- Gemini ---\n" \o trimTo(council.gemini, 1800)

\* the bullets of mergeHeuristically
NextSteps(council) ==
  LET lines == TrimmedNonEmpty(SplitLines(
                  council.codex \o "\n" \o council.claude \o "\n" \o council.gemini))
  IN Slice0(dedupe(CollectActionable(lines, <<>>)), 12)

\* ConsensusSynthesizer.mergeHeuristically
mergeHeuristically(input) ==
  LET unique == NextSteps(input.council)
  IN "## Result\n" \o input.outputStyle \o "\n\n### Recommended next steps\n"
       \o (IF unique # <<>>
           THEN JoinLines([i \in 1..Len(unique) |-> "- " \o unique[i]], "\n")
           ELSE "- Provide more context/logs so the council can act.")
       \o "\n\n### Guardrails\n- " \o input.rubric
       \o "\n- " \o SplitLines(input.responseContract)[1] \o "\n"

\* ConsensusSynthesizer.synthesize
synthesize(input) ==
  mergeHeuristically(input) \o "\n\n## Council Notes (trimmed)\n"
    \o formatCouncilNotes(input.council)

\* EmbeddedLlm.generate as its caller sees it: the trimmed text, or the
\* error thrown; out is what the model did
generate(out) ==
  IF out.ok THEN [ok |-> TRUE, text |-> StrTrim(out.text)] ELSE out

\* a strategy that answers with a partial result when the generator fails
synthesizeWithLlmPartial(input, gen) ==
  "## Synthesized Result\n" \o (IF gen.ok THEN gen.text ELSE "")
    \o "\n\n## Council Notes (trimmed)\n" \o formatCouncilNotes(input.council)

\* ConsensusSynthesizer.synthesizeWithLlm; gen is what llm.generate did
synthesizeWithLlm(input, gen) ==
  IF gen.ok
  THEN "## Synthesized Result\n" \o gen.text \o "\n\n## Council Notes (trimmed)\n"
         \o formatCouncilNotes(input.council)
  ELSE synthesize(input)

(***************************************************************************)
(* Remote synthesis (LocalModelSynthesizer.synthesizeWithOllama)           *)
(***************************************************************************)
\* a remote strategy that takes an empty response for an answer
synthesizeWithOllamaLax(resp) ==
  IF ~resp.reachable THEN [threw |-> TRUE, value |-> resp.cause]
  ELSE IF ~(resp.status >= 200 /\ resp.status <= 299)
    THEN [threw |-> TRUE,
          value |-> "Ollama /api/generate failed: HTTP " \o ToString(resp.status)]
  ELSE IF resp.error # "" THEN [threw |-> TRUE, value |-> "Ollama error: " \o resp.error]
  ELSE [threw |-> FALSE, value |-> StrTrim(resp.response)]

\* resp is what the service did: fetch rejected, or an HTTP answer with its
\* status, its error field and its response field
synthesizeWithOllama(resp) ==
  IF ~resp.reachable THEN [threw |-> TRUE, value |-> resp.cause]
  ELSE IF ~(resp.status >= 200 /\ resp.status <= 299)
    THEN [threw |-> TRUE,
          value |-> "Ollama /api/generate failed: HTTP " \o ToString(resp.status)]
  ELSE IF resp.error # "" THEN [threw |-> TRUE, value |-> "Ollama error: " \o resp.error]
  ELSE IF StrTrim(resp.response) = ""
    THEN [threw |-> TRUE, value |-> "Ollama returned an empty response."]
  ELSE [threw |-> FALSE, value |-> StrTrim(resp.response)]

(***************************************************************************)
(* Inputs                                                                  *)
(***************************************************************************)
Modes == {"plan"}

UserTexts == {"Add input validation to the login form"}

\* the option records a caller passes (defaults already applied)
OptionSets == [architect : BOOLEAN, memory : BOOLEAN, consensus : BOOLEAN, fast : BOOLEAN]

\* configured values of unifiedAiCouncil.orchestrator.engine
EngineSettings == {"embedded", "nano", "ollama"}

\* configured values of unifiedAiCouncil.cli.timeoutMs
TimeoutSettings == {6000}

\* configured values of unifiedAiCouncil.cli.<member>.command
CommandSettings(member) ==
  {Expand(<<member>>), Expand(<<member, ";", "rm">>)}

\* what memory.buildContextForPrompt can do
MemoryReads ==
  {[threw |-> FALSE, text |-> "(no saved project memory yet)"],
   [threw |-> TRUE, text |-> "EACCES: permission denied"]}

\* what vscode.workspace.fs.readDirectory can do for
\* memory.captureWorkspaceSnapshotHints: a listing, or a failure
WorkspaceHints ==
  {[threw |-> FALSE, text |-> "file: package.json"],
   [threw |-> TRUE, text |-> "EPERM: operation not permitted"]}

\* ProjectMemory.captureWorkspaceSnapshotHints; listing is what readDirectory did
captureWorkspaceSnapshotHints(listing) ==
  IF listing.threw THEN "(unable to read workspace)" ELSE listing.text

\* what the model can do for one llm.generate call: a generated text, a
\* blank generated text, or a failure of the load or of the generation
LlmOutcomes ==
  {[ok |-> TRUE, text |-> "Define the validation rules first.\n"],
   [ok |-> TRUE, text |-> " \n"],
   [ok |-> FALSE, text |-> "Model load failed"]}

\* what the remote service can do with the one request
OllamaResponses ==
  {[reachable |-> FALSE, cause |-> "fetch failed", status |-> 0, error |-> "", response |-> ""],
   [reachable |-> TRUE, cause |-> "", status |-> 500, error |-> "", response |-> ""],
   [reachable |-> TRUE, cause |-> "", status |-> 200, error |-> "Model not found", response |-> ""],
   [reachable |-> TRUE, cause |-> "", status |-> 200, error |-> "", response |-> " \n"],
   [reachable |-> TRUE, cause |-> "", status |-> 200, error |-> "", response |-> "Merged answer\n"]}

\* the data a member's child process can write
StdoutChunk(member) == "run the " \o member \o " plan\n"

StderrChunk(member) == member \o ": warning\n"

\* exit codes the 'close' event can carry ("null": ended by a signal)
ExitCodes == {"0", "null"}

\* messages of the Error a child 'error' event can carry
ErrorCauses == {"spawn wsl.exe ENOENT"}

\* data events of all member runs together
MaxChunks == 1

(***************************************************************************)
(* State                                                                   *)
(***************************************************************************)
VARIABLES
  vcmd,           \* the command string handed to validateCliCommand
  vres,           \* its CommandValidationResult
  vdone,          \* whether validateCliCommand has returned
  pc,             \* where the runCouncil call is
  workspace,      \* whether a workspace folder is open
  opts,           \* its options
  mode,           \* its mode
  userText,       \* its user text
  memoryContext,  \* local memoryContext
  fileContext,    \* local fileContext
  engine,         \* local engine
  embeddedLlm,    \* the coordinator's embeddedLlm field: "null" or "instance"
  llm,            \* local embeddedLlm, what getEmbeddedLlm returned
  councilPrompt,  \* local councilPrompt
  responseContract, \* local responseContract
  run,            \* per member: the state of its runCouncilMember call
  chunks,         \* data events so far
  arrival,        \* the members in the order their runs settled
  council,        \* the collected texts {codex, claude, gemini}
  final,          \* local final
  result,         \* the value runCouncil returned
  memReads,       \* calls of the memory collaborator's read operations
  memEntries,     \* entries appended by memory.addEntry
  synthCalls,     \* calls of each synthesis strategy
  service,        \* what the remote service did with the request, if one was sent
  generated,      \* what the embedded model did for the synthesis, if it was asked
  memErrors,      \* the accesses of the memory collaborator that failed
  generator,      \* EmbeddedLlm.generator: 0 for null, else the load that built it
  loading,        \* EmbeddedLlm.loading: 0 for null, else the load whose promise it is
  loadError,      \* EmbeddedLlm.loadError: 0 for null, else the load that failed
  isLoading,      \* EmbeddedLlm.isLoading
  loads,          \* the calls of load() so far: "running", "built" or "failed"
  callers,        \* per caller of ensureLoaded or generate: where its call is
  disposes,       \* calls of dispose() so far
  cleared,        \* the errors that a dispose() has cleared
  lastCall,       \* the step of EmbeddedLlm taken last
  disposed,       \* CouncilOrchestrator.disposed
  orchestratorInstance, \* the extension's orchestratorInstance: FALSE for null
  instances,      \* per EmbeddedLlm the coordinator constructed: calls of its dispose()
  disposeCalls,   \* direct calls of CouncilOrchestrator.dispose() so far
  disposeThrew,   \* whether a call of CouncilOrchestrator.dispose() threw
  ollama,         \* the synthesizeWithOllama call: its request and how it settled
  script          \* the wrapper script of one member run, as the shell runs it

vvars == <<vcmd, vres, vdone>>

callVars == <<pc, opts, mode, userText, memoryContext, fileContext, engine, embeddedLlm,
              llm, councilPrompt, responseContract, council, final, result>>

envVars == <<memReads, memEntries, synthCalls, service, generated, workspace, memErrors>>

runVars == <<run, chunks, arrival>>

remoteVars == <<ollama>>

scriptVars == <<script>>

ownerVars == <<disposed, orchestratorInstance, instances, disposeCalls, disposeThrew>>

llmVars == <<generator, loading, loadError, isLoading, loads, callers, disposes, cleared,
             lastCall>>

vars == <<vcmd, vres, vdone, pc, opts, mode, userText, memoryContext, fileContext, engine,
          embeddedLlm, llm, councilPrompt, responseContract, run, chunks, arrival, council,
          final, result, memReads, memEntries, synthCalls, service, generated,
          workspace, memErrors, generator, loading, loadError, isLoading, loads, callers,
          disposes, cleared, lastCall, disposed, orchestratorInstance, instances,
          disposeCalls, disposeThrew, ollama, script>>

\* a member whose runCouncilMember has not been called
NoRun ==
  [called |-> 0, spawns |-> 0, resolved |-> FALSE, timer |-> "unset",
   raw |-> <<>>, stdin |-> "", stdout |-> "", stderr |-> "", timeoutMs |-> 0,
   status |-> "none", value |-> "", settles |-> 0, kills |-> 0, events |-> <<>>]

NoCouncil == [codex |-> "", claude |-> "", gemini |-> ""]

\* the embedded model has not been asked for a synthesis
NoGeneration == [ok |-> FALSE, text |-> "none"]

\* no request has been sent to the remote service
NoRequest ==
  [reachable |-> FALSE, cause |-> "none", status |-> 0, error |-> "", response |-> ""]

InitCouncil ==
  /\ pc = "idle"
  /\ opts = [architect |-> TRUE, memory |-> TRUE, consensus |-> TRUE, fast |-> FALSE]
  /\ mode = "plan"
  /\ userText = ""
  /\ memoryContext = ""
  /\ fileContext = ""
  /\ engine = "embedded"
  /\ embeddedLlm = "null"
  /\ llm = "null"
  /\ councilPrompt = ""
  /\ responseContract = ""
  /\ run = [m \in Members |-> NoRun]
  /\ chunks = 0
  /\ arrival = <<>>
  /\ council = NoCouncil
  /\ final = ""
  /\ result = ""
  /\ memReads = 0
  /\ memEntries = <<>>
  /\ synthCalls = [heuristic |-> 0, llm |-> 0, ollama |-> 0]
  /\ service = NoRequest
  /\ generated = NoGeneration
  /\ memErrors = {}
  /\ workspace \in BOOLEAN

\* the callers of one EmbeddedLlm instance
Callers == {"c1", "c2", "c3"}

\* a caller that has not called yet
NoCall == [op |-> "none", at |-> "idle", load |-> 0, error |-> 0, stale |-> FALSE]

\* an EmbeddedLlm as constructed
InitLlm ==
  /\ generator = 0
  /\ loading = 0
  /\ loadError = 0
  /\ isLoading = FALSE
  /\ loads = <<>>
  /\ callers = [c \in Callers |-> NoCall]
  /\ disposes = 0
  /\ cleared = {}
  /\ lastCall = "none"

\* the coordinator as constructed by activate, which keeps it in
\* orchestratorInstance
InitOwner ==
  /\ disposed = FALSE
  /\ orchestratorInstance = TRUE
  /\ instances = <<>>
  /\ disposeCalls = 0
  /\ disposeThrew = FALSE

\* no synthesizeWithOllama call has been made
NoCallYet ==
  [at |-> "idle", baseUrl |-> "", url |-> "", signal |-> FALSE, log |-> {},
   threw |-> FALSE, value |-> "", config |-> <<>>, body |-> <<>>]

InitRemote == ollama = NoCallYet

\* no wrapper script has been made
NoScript ==
  [at |-> "none", cli |-> <<>>, safeCli |-> <<>>, key |-> "", payload |-> "",
   invocations |-> <<>>, codes |-> <<>>, out |-> "", diagnosed |-> FALSE, stdout |-> "",
   exit |-> 0]

InitScript == script = NoScript

InitValidator ==
  /\ vcmd = <<>>
  /\ vres = Rejected("")
  /\ vdone = FALSE

Init == InitValidator /\ InitCouncil /\ InitLlm /\ InitOwner /\ InitRemote /\ InitScript

(***************************************************************************)
(* runCouncil, step by step                                                *)
(***************************************************************************)
\* a call that goes on without a workspace folder
RunCouncilUnguarded(o, md, ut) ==
  /\ pc = "idle"
  /\ opts' = o
  /\ mode' = md
  /\ userText' = ut
  /\ pc' = "gather"
  /\ UNCHANGED <<memoryContext, fileContext, engine, embeddedLlm, llm, councilPrompt,
                 responseContract, council, final, result>>
  /\ UNCHANGED <<runVars, envVars, vvars, llmVars, ownerVars, remoteVars, scriptVars>>

\* lines 103-111: the call, its precondition and its options
RunCouncil(o, md, ut) ==
  /\ pc = "idle"
  /\ opts' = o
  /\ mode' = md
  /\ userText' = ut
  /\ IF ~workspace
     THEN /\ result' = "Open a workspace folder first."
          /\ pc' = "done"
     ELSE /\ pc' = "gather"
          /\ UNCHANGED result
  /\ UNCHANGED <<memoryContext, fileContext, engine, embeddedLlm, llm, councilPrompt,
                 responseContract, council, final>>
  /\ UNCHANGED <<runVars, envVars, vvars, llmVars, ownerVars, remoteVars, scriptVars>>

\* lines 113-114: the two reads of the memory collaborator
GatherContext(rd, hints) ==
  /\ pc = "gather"
  /\ IF opts.memory
     THEN IF rd.threw
          THEN /\ memReads' = memReads + 1
               /\ memErrors' = memErrors \cup {"read"}
               /\ pc' = "rejected"
               /\ UNCHANGED <<memoryContext, fileContext>>
          ELSE /\ memReads' = memReads + 2
               /\ memErrors' = IF hints.threw THEN memErrors \cup {"hints"} ELSE memErrors
               /\ memoryContext' = rd.text
               /\ fileContext' = captureWorkspaceSnapshotHints(hints)
               /\ pc' = "build"
     ELSE /\ memoryContext' = ""
          /\ fileContext' = ""
          /\ pc' = "build"
          /\ UNCHANGED <<memReads, memErrors>>
  /\ UNCHANGED <<opts, mode, userText, engine, embeddedLlm, llm, councilPrompt,
                 responseContract, council, final, result>>
  /\ UNCHANGED <<runVars, memEntries, synthCalls, service, generated,
                 workspace, vvars, llmVars, ownerVars, remoteVars, scriptVars>>

\* CouncilOrchestrator.getEmbeddedLlm: the field after the call and the
\* value returned, field being this.embeddedLlm before the call
getEmbeddedLlm(field, enabled) ==
  IF ~enabled THEN [field |-> field, returned |-> "null"]
  ELSE [field |-> "instance", returned |-> "instance"]

\* lines 116-168: engine, embedded generator and the council prompt
BuildPrompt(rawEngine, enabled, gen) ==
  /\ pc = "build"
  /\ LET profile == MODE_PROFILES[mode]
         eng == orchestratorEngine(rawEngine)
         got == getEmbeddedLlm(embeddedLlm, enabled)
         input == [userText |-> userText, mode |-> profile.name,
                   councilGoal |-> profile.councilGoal,
                   memoryContext |-> memoryContext, fileContext |-> fileContext]
         built ==
           IF opts.architect
           THEN IF eng = "embedded" /\ got.returned # "null"
                THEN buildCouncilPromptWithLlm(input, generate(gen))
                ELSE buildCouncilPrompt(input)
           ELSE [councilPrompt |-> PlainPrompt(profile, userText),
                 responseContract |-> buildResponseContractString(profile)]
     IN /\ engine' = eng
        /\ embeddedLlm' = got.field
        /\ llm' = got.returned
        /\ councilPrompt' = built.councilPrompt
        /\ responseContract' = built.responseContract
  /\ pc' = "fanout"
  /\ UNCHANGED <<opts, mode, userText, memoryContext, fileContext, council, final, result>>
  /\ UNCHANGED <<runVars, envVars, vvars, llmVars, ownerVars, remoteVars, scriptVars>>

\* WslCliRunner.runCouncilMember up to its first suspension: the command is
\* resolved and, if valid, the child is spawned, its timer armed and the
\* payload written
StartRun(member, raw, role, prompt, timeoutMs) ==
  LET cmdResult == getCliCommand(member, raw)
  IN IF cmdResult.error # ""
     THEN [NoRun EXCEPT !.called = 1, !.raw = raw, !.status = "fulfilled", !.settles = 1,
                        !.value = ConfigErrorText(member, cmdResult.error)]
     ELSE [NoRun EXCEPT !.called = 1, !.raw = raw, !.spawns = 1, !.timer = "armed",
                        !.timeoutMs = timeoutMs, !.status = "pending",
                        !.stdin = buildPayload(role, prompt)]

\* a jobs array that ignores the fast option
JobsAlways(fast) == <<"codex", "claude", "gemini">>

\* the jobs array of lines 172-178, by member
Jobs(fast) == IF fast THEN <<"codex", "claude">> ELSE <<"codex", "claude", "gemini">>

\* the members with a job
Scheduled(fast) == {Jobs(fast)[i] : i \in 1..Len(Jobs(fast))}

\* a fan-out as if each job were awaited before the next is created: one
\* step starts the first scheduled member not yet started, once the ones
\* before it have settled
FanoutChained(rawTimeout, rawCmd) ==
  /\ pc = "fanout"
  /\ LET timeoutMs == cliTimeoutMs(rawTimeout)
         profile == MODE_PROFILES[mode]
         jobs == Jobs(opts.fast)
         next == CHOOSE i \in 1..Len(jobs) :
                   /\ run[jobs[i]].called = 0
                   /\ \A j \in 1..(i - 1) : run[jobs[j]].called = 1
     IN /\ \A j \in 1..(next - 1) : run[jobs[j]].status # "none"
        /\ run' = [run EXCEPT ![jobs[next]] =
                     StartRun(jobs[next], rawCmd[jobs[next]], profile.roles[jobs[next]],
                              councilPrompt, timeoutMs)]
        /\ arrival' = IF run'[jobs[next]].status = "fulfilled"
                      THEN Append(arrival, jobs[next]) ELSE arrival
        /\ pc' = IF next = Len(jobs) THEN "await" ELSE "fanout"
  /\ UNCHANGED <<opts, mode, userText, memoryContext, fileContext, engine, embeddedLlm, llm,
                 councilPrompt, responseContract, council, final, result>>
  /\ UNCHANGED <<chunks, envVars, vvars, llmVars, ownerVars, remoteVars, scriptVars>>

\* lines 170-178: every scheduled member run is started
Fanout(rawTimeout, rawCmd) ==
  /\ pc = "fanout"
  /\ LET timeoutMs == cliTimeoutMs(rawTimeout)
         profile == MODE_PROFILES[mode]
     IN run' = [m \in Members |->
                  IF m \in Scheduled(opts.fast)
                  THEN StartRun(m, rawCmd[m], profile.roles[m], councilPrompt, timeoutMs)
                  ELSE run[m]]
  /\ arrival' = SelectSeq(CouncilMembers,
                          LAMBDA m : m \in Scheduled(opts.fast) /\ run'[m].status = "fulfilled")
  /\ pc' = "await"
  /\ UNCHANGED <<opts, mode, userText, memoryContext, fileContext, engine, embeddedLlm, llm,
                 councilPrompt, responseContract, council, final, result>>
  /\ UNCHANGED <<chunks, envVars, vvars, llmVars, ownerVars, remoteVars, scriptVars>>

(***************************************************************************)
(* runWsl: the handlers of one member run                                  *)
(***************************************************************************)
\* child.stdout.on('data')
StdoutData(m) ==
  /\ run[m].spawns = 1
  /\ \A i \in 1..Len(run[m].events) : run[m].events[i] # "close"
  /\ chunks < MaxChunks
  /\ run' = [run EXCEPT ![m].stdout = @ \o StdoutChunk(m)]
  /\ chunks' = chunks + 1
  /\ UNCHANGED <<arrival, callVars, envVars, vvars, llmVars, ownerVars, remoteVars, scriptVars>>

\* child.stderr.on('data')
StderrData(m) ==
  /\ run[m].spawns = 1
  /\ \A i \in 1..Len(run[m].events) : run[m].events[i] # "close"
  /\ chunks < MaxChunks
  /\ run' = [run EXCEPT ![m].stderr = @ \o StderrChunk(m)]
  /\ chunks' = chunks + 1
  /\ UNCHANGED <<arrival, callVars, envVars, vvars, llmVars, ownerVars, remoteVars, scriptVars>>

\* the timer callback
OnTimeout(r, member) ==
  IF r.resolved THEN r
  ELSE [r EXCEPT !.resolved = TRUE, !.kills = @ + 1, !.settles = @ + 1,
                 !.status = IF r.status = "pending" THEN "rejected" ELSE @,
                 !.value = IF r.status = "pending"
                           THEN TimeoutMessage(member, r.timeoutMs) ELSE @]

\* an error handler that rejects and leaves the latch and the timer alone
OnErrorRejectOnly(r, cause) ==
  [r EXCEPT !.settles = @ + 1,
            !.status = IF r.status = "pending" THEN "rejected" ELSE @,
            !.value = IF r.status = "pending" THEN cause ELSE @]

\* child.on('error')
OnError(r, cause) ==
  IF r.resolved THEN r
  ELSE [r EXCEPT !.resolved = TRUE, !.timer = "cleared", !.settles = @ + 1,
                 !.status = IF r.status = "pending" THEN "rejected" ELSE @,
                 !.value = IF r.status = "pending" THEN cause ELSE @]

\* a close handler without the latch
OnCloseUnlatched(r, member, code) ==
  [r EXCEPT !.resolved = TRUE, !.timer = "cleared", !.settles = @ + 1,
            !.status = "fulfilled",
            !.value = CloseText(member, r.stdout, r.stderr, code)]

\* child.on('close')
OnClose(r, member, code) ==
  IF r.resolved THEN r
  ELSE [r EXCEPT !.resolved = TRUE, !.timer = "cleared", !.settles = @ + 1,
                 !.status = IF r.status = "pending" THEN "fulfilled" ELSE @,
                 !.value = IF r.status = "pending"
                           THEN CloseText(member, r.stdout, r.stderr, code) ELSE @]

\* the timer of m's run fires
TimerFire(m) ==
  /\ run[m].timer = "armed"
  /\ run' = [run EXCEPT ![m] = [OnTimeout(run[m], m) EXCEPT
                                   !.timer = "fired", !.events = Append(@, "timeout")]]
  /\ arrival' = IF run[m].status = "pending" /\ run'[m].status # "pending"
                THEN Append(arrival, m) ELSE arrival
  /\ UNCHANGED <<chunks, callVars, envVars, vvars, llmVars, ownerVars, remoteVars, scriptVars>>

\* the child of m's run emits 'error'
ChildError(m, cause) ==
  /\ run[m].spawns = 1
  /\ \A i \in 1..Len(run[m].events) : run[m].events[i] # "error"
  /\ run' = [run EXCEPT ![m] = [OnError(run[m], cause) EXCEPT !.events = Append(@, "error")]]
  /\ arrival' = IF run[m].status = "pending" /\ run'[m].status # "pending"
                THEN Append(arrival, m) ELSE arrival
  /\ UNCHANGED <<chunks, callVars, envVars, vvars, llmVars, ownerVars, remoteVars, scriptVars>>

\* the child of m's run emits 'close'
ChildClose(m, code) ==
  /\ run[m].spawns = 1
  /\ \A i \in 1..Len(run[m].events) : run[m].events[i] # "close"
  /\ run' = [run EXCEPT ![m] = [OnClose(run[m], m, code) EXCEPT !.events = Append(@, "close")]]
  /\ arrival' = IF run[m].status = "pending" /\ run'[m].status # "pending"
                THEN Append(arrival, m) ELSE arrival
  /\ UNCHANGED <<chunks, callVars, envVars, vvars, llmVars, ownerVars, remoteVars, scriptVars>>

(***************************************************************************)
(* runCouncil after the fan-out                                            *)
(***************************************************************************)
\* a join that ends at the first rejection, as Promise.all does
AllSettledOrRejected(jobs) ==
  \/ \A i \in 1..Len(jobs) : run[jobs[i]].status \in {"fulfilled", "rejected"}
  \/ \E i \in 1..Len(jobs) : run[jobs[i]].status = "rejected"

\* Promise.allSettled(jobs) has resolved: no job is pending any more
AllSettled(jobs) ==
  \A i \in 1..Len(jobs) : run[jobs[i]].status \in {"fulfilled", "rejected"}

\* results in the order the runs settled
ResultAtArrival(jobs, i) == run[arrival[i]]

\* results[i - 1] of line 179: the outcome of the i-th job
ResultAt(jobs, i) == run[jobs[i]]

\* lines 184-188 for one result
SlotText(res) ==
  IF res.status = "fulfilled" THEN res.value ELSE "ERROR: " \o ErrorToString(res.value)

\* line 191-192 (the dash of the header is written as - here)
RawRendering(modeName, c) ==
  "Unified AI Council (raw outputs) - mode: " \o modeName
    \o "\n\n---\n\n### Codex\n" \o c.codex
    \o "\n\n---\n\n### Claude Code\n" \o c.claude
    \o "\n\n---\n\n### Gemini\n" \o c.gemini

\* a join that hands the texts to the synthesis whatever consensus says
CollectThenSynthesize ==
  /\ pc = "await"
  /\ LET jobs == Jobs(opts.fast)
     IN /\ AllSettled(jobs)
        /\ council' = [codex  |-> SlotText(ResultAt(jobs, 1)),
                       claude |-> SlotText(ResultAt(jobs, 2)),
                       gemini |-> IF Len(jobs) >= 3 THEN SlotText(ResultAt(jobs, 3))
                                  ELSE "[skipped]"]
  /\ pc' = "synth"
  /\ UNCHANGED <<opts, mode, userText, memoryContext, fileContext, engine, embeddedLlm, llm,
                 councilPrompt, responseContract, final, result>>
  /\ UNCHANGED <<runVars, envVars, vvars, llmVars, ownerVars, remoteVars, scriptVars>>

\* lines 179-193: the join, the three texts and the raw return
Collect ==
  /\ pc = "await"
  /\ LET jobs == Jobs(opts.fast)
         texts == [codex  |-> SlotText(ResultAt(jobs, 1)),
                   claude |-> SlotText(ResultAt(jobs, 2)),
                   gemini |-> IF Len(jobs) >= 3 THEN SlotText(ResultAt(jobs, 3))
                              ELSE "[skipped]"]
     IN /\ AllSettled(jobs)
        /\ council' = texts
        /\ IF ~opts.consensus
           THEN /\ result' = RawRendering(MODE_PROFILES[mode].name, texts)
                /\ pc' = "done"
           ELSE /\ pc' = "synth"
                /\ UNCHANGED result
  /\ UNCHANGED <<opts, mode, userText, memoryContext, fileContext, engine, embeddedLlm, llm,
                 councilPrompt, responseContract, final>>
  /\ UNCHANGED <<runVars, envVars, vvars, llmVars, ownerVars, remoteVars, scriptVars>>

\* lines 195-202
SynthesisInput ==
  [mode |-> MODE_PROFILES[mode].name,
   rubric |-> MODE_PROFILES[mode].synthesis.rubric,
   outputStyle |-> MODE_PROFILES[mode].synthesis.outputStyle,
   responseContract |-> responseContract,
   userText |-> userText,
   council |-> council]

\* lines 217-247: the remote strategy with the coordinator's fallback
OllamaOrFallback(input, resp) ==
  LET r == synthesizeWithOllama(resp)
  IN IF r.threw THEN synthesize(input) ELSE r.value

\* lines 204-251: the configured engine produces final
Synthesize(gen, resp) ==
  /\ pc = "synth"
  /\ IF engine = "embedded" /\ llm # "null"
     THEN /\ final' = synthesizeWithLlm(SynthesisInput, generate(gen))
          /\ synthCalls' = [synthCalls EXCEPT !.llm = @ + 1,
                               !.heuristic = IF gen.ok THEN @ ELSE @ + 1]
          /\ generated' = gen
          /\ UNCHANGED service
     ELSE IF engine = "ollama"
     THEN /\ final' = OllamaOrFallback(SynthesisInput, resp)
          /\ synthCalls' = [synthCalls EXCEPT !.ollama = @ + 1,
                               !.heuristic = IF synthesizeWithOllama(resp).threw
                                             THEN @ + 1 ELSE @]
          /\ service' = resp
          /\ UNCHANGED generated
     ELSE /\ final' = synthesize(SynthesisInput)
          /\ synthCalls' = [synthCalls EXCEPT !.heuristic = @ + 1]
          /\ UNCHANGED <<service, generated>>
  /\ pc' = "persist"
  /\ UNCHANGED <<opts, mode, userText, memoryContext, fileContext, engine, embeddedLlm, llm,
                 councilPrompt, responseContract, council, result>>
  /\ UNCHANGED <<runVars, memReads, memEntries, workspace, memErrors, vvars, llmVars, ownerVars, remoteVars, scriptVars>>

\* lines 253-263: the memory entry and the return; written is whether
\* appendFileSync succeeded
Persist(written) ==
  /\ pc = "persist"
  /\ IF opts.memory
     THEN IF written
          THEN /\ memEntries' = Append(memEntries,
                    [kind |-> "council", userText |-> userText, mode |-> mode,
                     final |-> final, council |-> council])
               /\ result' = final
               /\ pc' = "done"
               /\ UNCHANGED memErrors
          ELSE /\ pc' = "rejected"
               /\ memErrors' = memErrors \cup {"write"}
               /\ UNCHANGED <<memEntries, result>>
     ELSE /\ result' = final
          /\ pc' = "done"
          /\ UNCHANGED <<memEntries, memErrors>>
  /\ UNCHANGED <<opts, mode, userText, memoryContext, fileContext, engine, embeddedLlm, llm,
                 councilPrompt, responseContract, council, final>>
  /\ UNCHANGED <<runVars, memReads, synthCalls, service, generated,
                 workspace, vvars, llmVars, ownerVars, remoteVars, scriptVars>>

\* what the backend of the configured engine can do during this synthesis
\* (the backend that is not asked does nothing)
GenerateOutcomes ==
  IF engine = "embedded" /\ llm # "null" THEN LlmOutcomes
  ELSE {NoGeneration}

ServiceResponses ==
  IF engine = "ollama" /\ ~(engine = "embedded" /\ llm # "null") THEN OllamaResponses
  ELSE {NoRequest}

\* the command settings read by one fan-out
CommandChoices ==
  {f \in [Members -> UNION {CommandSettings(m) : m \in Members}] :
     \A m \in Members : f[m] \in CommandSettings(m)}

(***************************************************************************)
(* The coordinator with every option and engine; the children's events     *)
(* are followed until their run has settled                                *)
(***************************************************************************)
Next ==
  \/ \E o \in OptionSets, md \in Modes, ut \in UserTexts : RunCouncil(o, md, ut)
  \/ \E rd \in MemoryReads, hints \in WorkspaceHints : GatherContext(rd, hints)
  \/ \E e \in EngineSettings, enabled \in BOOLEAN, gen \in LlmOutcomes :
        BuildPrompt(e, enabled, gen)
  \/ \E t \in TimeoutSettings, rc \in CommandChoices : Fanout(t, rc)
  \/ \E m \in Members : ~run[m].resolved /\ StdoutData(m)
  \/ \E m \in Members : ~run[m].resolved /\ TimerFire(m)
  \/ \E m \in Members, cause \in ErrorCauses : ~run[m].resolved /\ ChildError(m, cause)
  \/ \E m \in Members, code \in {"0"} : ~run[m].resolved /\ ChildClose(m, code)
  \/ Collect
  \/ \E gen \in GenerateOutcomes, resp \in ServiceResponses : Synthesize(gen, resp)
  \/ \E written \in BOOLEAN : Persist(written)

Spec == Init /\ [][Next]_vars

(***************************************************************************)
(* One member run on its own (runCouncilMember called directly)            *)
(***************************************************************************)
\* timeoutMs arguments of a direct call
RunnerTimeouts == {50, 6000}

\* WslCliRunner.runCouncilMember called for one member
RunCouncilMember(m, raw, prompt, timeoutMs) ==
  /\ pc = "idle"
  /\ run' = [run EXCEPT ![m] = StartRun(m, raw, MODE_PROFILES[mode].roles[m], prompt, timeoutMs)]
  /\ arrival' = IF run'[m].status = "fulfilled" THEN <<m>> ELSE <<>>
  /\ pc' = "member"
  /\ UNCHANGED <<opts, mode, userText, memoryContext, fileContext, engine, embeddedLlm, llm,
                 councilPrompt, responseContract, council, final, result>>
  /\ UNCHANGED <<chunks, envVars, vvars, llmVars, ownerVars, remoteVars, scriptVars>>

NextRunner ==
  \/ \E m \in Members, t \in RunnerTimeouts : \E raw \in CommandSettings(m) :
        RunCouncilMember(m, raw, "test prompt", t)
  \/ \E m \in Members : StdoutData(m)
  \/ \E m \in Members : StderrData(m)
  \/ \E m \in Members : TimerFire(m)
  \/ \E m \in Members, cause \in ErrorCauses : ChildError(m, cause)
  \/ \E m \in Members, code \in ExitCodes : ChildClose(m, code)

SpecRunner == Init /\ [][NextRunner]_vars

RECURSIVE AtomSeqs(_)
\* the sequences of at most n atoms
AtomSeqs(n) ==
  IF n = 0 THEN {<<>>}
  ELSE LET shorter == AtomSeqs(n - 1)
       IN shorter \cup {Append(s, a) : s \in {t \in shorter : Len(t) = n - 1}, a \in Atoms}

(***************************************************************************)
(* The validator on its own: every command of at most MaxAtoms atoms       *)
(***************************************************************************)
InitValidate ==
  /\ vcmd \in {Expand(as) : as \in AtomSeqs(MaxAtoms)}
  /\ vres = Rejected("")
  /\ vdone = FALSE
  /\ InitCouncil
  /\ InitLlm
  /\ InitOwner
  /\ InitRemote
  /\ InitScript

Validate ==
  /\ ~vdone
  /\ vres' = validateCliCommand(vcmd)
  /\ vdone' = TRUE
  /\ UNCHANGED <<vcmd, runVars, callVars, envVars, llmVars, ownerVars, remoteVars, scriptVars>>

NextValidate == Validate

SpecValidate == InitValidate /\ [][NextValidate]_vars

(***************************************************************************)
(* The validator on commands that are an executable name with arguments    *)
(***************************************************************************)
\* executable names a command starts with
ExeNames == {<<"codex">>, <<"claude">>, <<"gemini">>}

\* arguments: a flag, a quoted argument with a space in it, a quoted
\* argument, a word, a redirection
ArgAtoms ==
  {<<"-", "-", "a">>, <<"'", "a", " ", "a", "'">>, <<"\"", "a", "\"">>, <<"a">>,
   <<">", "a">>}

\* what separates two tokens
SepAtoms == {<<" ">>, <<"\t">>, <<"\n">>, <<" ", " ">>, <<"\r", "\n">>}

\* what a command can start and end with
EdgeAtoms == {<<>>, <<"\t">>, <<"\n">>}

RECURSIVE ArgTails(_)
\* the atom sequences of at most n arguments, each after a separator
ArgTails(n) ==
  IF n = 0 THEN {<<>>}
  ELSE {<<>>} \cup {sep \o arg \o rest : sep \in SepAtoms, arg \in ArgAtoms,
                                        rest \in ArgTails(n - 1)}

\* the commands enumerated: an executable name, at most MaxArgs arguments,
\* whitespace around
ArgCommands ==
  {Expand(lead \o exe \o tail \o trail) :
     lead \in EdgeAtoms, exe \in ExeNames, tail \in ArgTails(MaxArgs), trail \in EdgeAtoms}

InitCommand ==
  /\ vcmd \in ArgCommands
  /\ vres = Rejected("")
  /\ vdone = FALSE
  /\ InitCouncil
  /\ InitLlm
  /\ InitOwner
  /\ InitRemote
  /\ InitScript

SpecCommand == InitCommand /\ [][NextValidate]_vars

(***************************************************************************)
(* EmbeddedLlm: concurrent callers of ensureLoaded, generate and dispose   *)
(***************************************************************************)
\* the operations a caller can call
LlmOps == {"ensureLoaded", "generate"}

isLoaded == generator # 0

hasError == loadError # 0

getError == loadError

\* the loads whose load() has not finished
InFlight == {k \in 1..Len(loads) : loads[k] = "running"}

\* ensureLoaded resolved for the call: an ensureLoaded call has returned, a
\* generate call goes on after its await
Resolved(call) ==
  [call EXCEPT !.at = IF call.op = "generate" THEN "ready" ELSE "returned"]

\* the call threw the error of load k
Thrown(call, k) ==
  [call EXCEPT !.at = "threw", !.error = k, !.stale = (k \in cleared)]

\* ensureLoaded calls load() and returns its promise
Starts(c, op) ==
  /\ Len(loads) < MaxLoads
  /\ isLoading' = TRUE
  /\ loads' = Append(loads, "running")
  /\ loading' = Len(loads) + 1
  /\ callers' = [callers EXCEPT ![c] = [NoCall EXCEPT !.op = op, !.at = "awaiting",
                                                      !.load = Len(loads) + 1]]
  /\ UNCHANGED <<generator, loadError>>

\* ensureLoaded returns at once
Returns(c, op) ==
  /\ callers' = [callers EXCEPT ![c] = Resolved([NoCall EXCEPT !.op = op])]
  /\ UNCHANGED <<generator, loading, loadError, isLoading, loads>>

\* ensureLoaded as if it tried the load again where an error is stored
ThrowsAfterRetry(c, op) ==
  Starts(c, op)

\* ensureLoaded throws the stored error
Throws(c, op) ==
  /\ callers' = [callers EXCEPT ![c] = Thrown([NoCall EXCEPT !.op = op], loadError)]
  /\ UNCHANGED <<generator, loading, loadError, isLoading, loads>>

\* ensureLoaded returns the promise of the load in progress
Awaits(c, op) ==
  /\ callers' = [callers EXCEPT ![c] = [NoCall EXCEPT !.op = op, !.at = "awaiting",
                                                      !.load = loading]]
  /\ UNCHANGED <<generator, loading, loadError, isLoading, loads>>

\* ensureLoaded waits in its loop
Sleeps(c, op) ==
  /\ callers' = [callers EXCEPT ![c] = [NoCall EXCEPT !.op = op, !.at = "sleeping"]]
  /\ UNCHANGED <<generator, loading, loadError, isLoading, loads>>

\* ensureLoaded as if it had no isLoading flag to look at
ensureLoadedNoFlag(c, op) ==
  IF generator # 0 THEN Returns(c, op)
  ELSE IF loadError # 0 THEN Throws(c, op)
  ELSE IF loading # 0 THEN Awaits(c, op)
  ELSE Starts(c, op)

\* ensureLoaded up to its first await
ensureLoaded(c, op) ==
  IF generator # 0 THEN Returns(c, op)
  ELSE IF loadError # 0 THEN Throws(c, op)
  ELSE IF loading # 0 THEN Awaits(c, op)
  ELSE IF isLoading THEN Sleeps(c, op)
  ELSE Starts(c, op)

\* a caller calls ensureLoaded, or generate, which awaits ensureLoaded
EnsureLoaded(c, op) ==
  /\ callers[c].at = "idle"
  /\ ensureLoaded(c, op)
  /\ lastCall' = "ensureLoaded"
  /\ UNCHANGED <<disposes, cleared>>
  /\ UNCHANGED <<vvars, callVars, envVars, runVars, ownerVars, remoteVars, scriptVars>>

\* the timer of a caller waiting in the loop fires and the loop ends
Wake(c) ==
  /\ callers[c].at = "sleeping"
  /\ ~(isLoading /\ generator = 0 /\ loadError = 0)
  /\ IF generator # 0 THEN Returns(c, callers[c].op)
     ELSE IF loadError # 0 THEN Throws(c, callers[c].op)
     ELSE Starts(c, callers[c].op)
  /\ lastCall' = "ensureLoaded"
  /\ UNCHANGED <<disposes, cleared>>
  /\ UNCHANGED <<vvars, callVars, envVars, runVars, ownerVars, remoteVars, scriptVars>>

\* load k builds the pipeline
LoadBuilt(k) ==
  /\ k \in InFlight
  /\ generator' = k
  /\ isLoading' = FALSE
  /\ loads' = [loads EXCEPT ![k] = "built"]
  /\ callers' = [c \in Callers |->
                   IF callers[c].at = "awaiting" /\ callers[c].load = k
                   THEN Resolved(callers[c]) ELSE callers[c]]
  /\ lastCall' = "load"
  /\ UNCHANGED <<loading, loadError, disposes, cleared>>
  /\ UNCHANGED <<vvars, callVars, envVars, runVars, ownerVars, remoteVars, scriptVars>>

\* the import or the pipeline of load k fails
LoadFailed(k) ==
  /\ k \in InFlight
  /\ loadError' = k
  /\ isLoading' = FALSE
  /\ loads' = [loads EXCEPT ![k] = "failed"]
  /\ callers' = [c \in Callers |->
                   IF callers[c].at = "awaiting" /\ callers[c].load = k
                   THEN Thrown(callers[c], k) ELSE callers[c]]
  /\ lastCall' = "load"
  /\ UNCHANGED <<generator, loading, disposes, cleared>>
  /\ UNCHANGED <<vvars, callVars, envVars, runVars, ownerVars, remoteVars, scriptVars>>

\* generate after its ensureLoaded resolved: it calls the generator it finds
Generate(c) ==
  /\ callers[c].at = "ready"
  /\ callers' = [callers EXCEPT ![c].at = IF generator # 0 THEN "returned" ELSE "threw"]
  /\ lastCall' = "generate"
  /\ UNCHANGED <<generator, loading, loadError, isLoading, loads, disposes, cleared>>
  /\ UNCHANGED <<vvars, callVars, envVars, runVars, ownerVars, remoteVars, scriptVars>>

\* dispose as if it kept the stored error
DisposeKeepsError ==
  /\ disposes < MaxDisposes
  /\ generator' = 0
  /\ loading' = 0
  /\ UNCHANGED loadError
  /\ disposes' = disposes + 1
  /\ cleared' = cleared
  /\ lastCall' = "dispose"
  /\ UNCHANGED <<isLoading, loads, callers>>
  /\ UNCHANGED <<vvars, callVars, envVars, runVars, ownerVars, remoteVars, scriptVars>>

Dispose ==
  /\ disposes < MaxDisposes
  /\ generator' = 0
  /\ loading' = 0
  /\ loadError' = 0
  /\ disposes' = disposes + 1
  /\ cleared' = cleared \cup ({loadError} \ {0})
  /\ lastCall' = "dispose"
  /\ UNCHANGED <<isLoading, loads, callers>>
  /\ UNCHANGED <<vvars, callVars, envVars, runVars, ownerVars, remoteVars, scriptVars>>

NextLlm ==
  \/ \E c \in Callers, op \in LlmOps : EnsureLoaded(c, op)
  \/ \E c \in Callers : Wake(c)
  \/ \E k \in 1..MaxLoads : LoadBuilt(k)
  \/ \E k \in 1..MaxLoads : LoadFailed(k)
  \/ \E c \in Callers : Generate(c)
  \/ Dispose

SpecLlm == Init /\ [][NextLlm]_vars

(***************************************************************************)
(* CouncilOrchestrator.dispose and its call sites in the extension         *)
(***************************************************************************)
\* this.embeddedLlm.dispose() on the field as it is: on null the call
\* throws a TypeError, on an instance it disposes the instance made last
release(field, made) ==
  IF field = "null" THEN [threw |-> TRUE, instances |-> made]
  ELSE [threw |-> FALSE, instances |-> [made EXCEPT ![Len(made)] = @ + 1]]

\* getEmbeddedLlm as runCouncil calls it
GetEmbeddedLlm(enabled) ==
  /\ Len(instances) < MaxInstances
  /\ LET got == getEmbeddedLlm(embeddedLlm, enabled)
     IN /\ embeddedLlm' = got.field
        /\ llm' = got.returned
        /\ instances' = IF embeddedLlm = "null" /\ got.field # "null"
                        THEN Append(instances, 0) ELSE instances
  /\ UNCHANGED <<disposed, orchestratorInstance, disposeCalls, disposeThrew>>
  /\ UNCHANGED <<pc, opts, mode, userText, memoryContext, fileContext, engine,
                 councilPrompt, responseContract, council, final, result>>
  /\ UNCHANGED <<vvars, envVars, runVars, llmVars, remoteVars, scriptVars>>

\* dispose as if it had no disposed flag and no test of the field
disposeEveryTime ==
  LET done == release(embeddedLlm, instances)
  IN /\ disposed' = TRUE
     /\ instances' = done.instances
     /\ disposeThrew' = (disposeThrew \/ done.threw)
     /\ UNCHANGED embeddedLlm

\* the body of CouncilOrchestrator.dispose
dispose ==
  IF disposed THEN UNCHANGED <<disposed, embeddedLlm, instances, disposeThrew>>
  ELSE /\ disposed' = TRUE
       /\ IF embeddedLlm # "null"
          THEN LET done == release(embeddedLlm, instances)
               IN /\ instances' = done.instances
                  /\ disposeThrew' = (disposeThrew \/ done.threw)
                  /\ embeddedLlm' = "null"
          ELSE UNCHANGED <<embeddedLlm, instances, disposeThrew>>

\* dispose called on the coordinator directly
DisposeCall ==
  /\ disposeCalls < MaxDisposeCalls
  /\ dispose
  /\ disposeCalls' = disposeCalls + 1
  /\ UNCHANGED orchestratorInstance
  /\ UNCHANGED <<pc, opts, mode, userText, memoryContext, fileContext, engine, llm,
                 councilPrompt, responseContract, council, final, result>>
  /\ UNCHANGED <<vvars, envVars, runVars, llmVars, remoteVars, scriptVars>>

\* the disposable that activate pushes to the subscriptions is disposed
SubscriptionDispose ==
  /\ orchestratorInstance
  /\ dispose
  /\ orchestratorInstance' = FALSE
  /\ UNCHANGED disposeCalls
  /\ UNCHANGED <<pc, opts, mode, userText, memoryContext, fileContext, engine, llm,
                 councilPrompt, responseContract, council, final, result>>
  /\ UNCHANGED <<vvars, envVars, runVars, llmVars, remoteVars, scriptVars>>

\* deactivate
Deactivate ==
  /\ orchestratorInstance
  /\ dispose
  /\ orchestratorInstance' = FALSE
  /\ UNCHANGED disposeCalls
  /\ UNCHANGED <<pc, opts, mode, userText, memoryContext, fileContext, engine, llm,
                 councilPrompt, responseContract, council, final, result>>
  /\ UNCHANGED <<vvars, envVars, runVars, llmVars, remoteVars, scriptVars>>

NextDispose ==
  \/ \E enabled \in BOOLEAN : GetEmbeddedLlm(enabled)
  \/ DisposeCall
  \/ SubscriptionDispose
  \/ Deactivate

SpecDispose == Init /\ [][NextDispose]_vars

(***************************************************************************)
(* The heuristic strategy on its own: every combination of member texts    *)
(***************************************************************************)
\* what a member's slot can hold: prose with an actionable line, the same
\* line in other letter case with a bullet line, prose with no actionable
\* line, a failed run, a member not run, nothing
MemberTexts ==
  {"Run the tests.\nThe parser is fine.",
   "run the tests.\n- Open src/parser.ts",
   "RUN THE TESTS.",
   "The change looks safe.",
   "ERROR: timeout",
   "[skipped]",
   ""}

InitSynthOver(texts) ==
  /\ council \in [codex : texts, claude : texts, gemini : texts]
  /\ responseContract = buildResponseContractString(MODE_PROFILES["plan"])
  /\ pc = "idle"
  /\ opts = [architect |-> TRUE, memory |-> TRUE, consensus |-> TRUE, fast |-> FALSE]
  /\ mode = "plan"
  /\ userText \in UserTexts
  /\ memoryContext = ""
  /\ fileContext = ""
  /\ engine = "heuristic"
  /\ embeddedLlm = "null"
  /\ llm = "null"
  /\ councilPrompt = ""
  /\ run = [m \in Members |-> NoRun]
  /\ chunks = 0
  /\ arrival = <<>>
  /\ final = ""
  /\ result = ""
  /\ memReads = 0
  /\ memEntries = <<>>
  /\ synthCalls = [heuristic |-> 0, llm |-> 0, ollama |-> 0]
  /\ service = NoRequest
  /\ generated = NoGeneration
  /\ memErrors = {}
  /\ workspace = TRUE
  /\ InitValidator
  /\ InitLlm
  /\ InitOwner
  /\ InitRemote
  /\ InitScript

InitSynth == InitSynthOver(MemberTexts)

\* ConsensusSynthesizer.synthesize called on the collected texts
HeuristicSynthesize ==
  /\ synthCalls.heuristic = 0
  /\ final' = synthesize(SynthesisInput)
  /\ synthCalls' = [synthCalls EXCEPT !.heuristic = @ + 1]
  /\ UNCHANGED <<pc, opts, mode, userText, memoryContext, fileContext, engine, embeddedLlm,
                 llm, councilPrompt, responseContract, council, result>>
  /\ UNCHANGED <<runVars, memReads, memEntries, service, generated, workspace, memErrors,
                 vvars, llmVars, ownerVars, remoteVars, scriptVars>>

NextSynth == HeuristicSynthesize

SpecSynth == InitSynth /\ [][NextSynth]_vars

(***************************************************************************)
(* The heuristic strategy on long member outputs                           *)
(***************************************************************************)
\* n lines: word, a space, tag and the number of the line
NumberedLines(word, tag, n) ==
  JoinLines([k \in 1..n |-> word \o " " \o tag \o ToString(k)], "\n")

\* long member outputs: seven steps; seven other steps; the first seven
\* steps again in capitals and three steps more; prose
LongTexts ==
  {NumberedLines("Add", "a", 7),
   NumberedLines("Run", "b", 7),
   NumberedLines("ADD", "a", 7) \o "\n" \o NumberedLines("Check", "c", 3),
   "The change looks safe."}

InitLong == InitSynthOver(LongTexts)

SpecLong == InitLong /\ [][NextSynth]_vars

(***************************************************************************)
(* The heuristic strategy on member outputs around the notes budget        *)
(***************************************************************************)
RECURSIVE Repeat(_, _)
\* s.repeat(n), by halves
Repeat(s, n) ==
  IF n = 0 THEN ""
  ELSE IF n = 1 THEN s
  ELSE LET h == Repeat(s, n \div 2)
       IN h \o h \o (IF n % 2 = 1 THEN s ELSE "")

\* member outputs of 2, 1799, 1800, 1801 and 2500 characters, and one of
\* 1808 characters with a run of spaces where the cut falls
BudgetTexts ==
  {"ok",
   Repeat("x", 1799),
   Repeat("x", 1800),
   Repeat("x", 1801),
   Repeat("x", 2500),
   Repeat("x", 1790) \o Repeat(" ", 15) \o "end"}

InitBudget == InitSynthOver(BudgetTexts)

SpecBudget == InitBudget /\ [][NextSynth]_vars

(***************************************************************************)
(* The wrapper script of a member run (wslCliRunner.ts, makeRunnerScript)  *)
(* as bash runs it: statement by statement, each parsed when it is reached *)
(***************************************************************************)
RECURSIVE EscapeSingleQuotes(_)
\* cliCmd.replace(/'/g, "'\\''"): every single quote becomes the four
\* characters quote, backslash, quote, quote
EscapeSingleQuotes(cmd) ==
  IF cmd = <<>> THEN <<>>
  ELSE (IF Head(cmd) = "'" THEN <<"'", "\\", "'", "'">> ELSE <<Head(cmd)>>)
         \o EscapeSingleQuotes(Tail(cmd))

\* s.includes(w) on character sequences
Includes(s, w) == \E i \in 1..(Len(s) - Len(w) + 1) : SubSeq(s, i, i + Len(w) - 1) = w

\* inferKey
inferKey(cliCmd) ==
  LET lower == [i \in 1..Len(cliCmd) |-> LowerChar(cliCmd[i])]
  IN IF Includes(lower, Chars("codex")) THEN "codex"
     ELSE IF Includes(lower, Chars("claude")) THEN "claude"
     ELSE "gemini"

RECURSIVE ShellWordsFrom(_, _, _, _, _, _)
\* bash splitting the text s of a simple command into words, from position
\* i on: quoting is "plain", "single" or "double", cur is the word being
\* read (begun or not), words are the words read.  closed is FALSE when the
\* text ends inside a quotation
ShellWordsFrom(s, i, quoting, cur, begun, words) ==
  IF i > Len(s)
  THEN IF quoting # "plain" THEN [closed |-> FALSE, words |-> words]
       ELSE [closed |-> TRUE, words |-> IF begun THEN Append(words, cur) ELSE words]
  ELSE LET c == s[i]
       IN CASE quoting = "single" ->
                 IF c = "'" THEN ShellWordsFrom(s, i + 1, "plain", cur, TRUE, words)
                 ELSE ShellWordsFrom(s, i + 1, "single", Append(cur, c), TRUE, words)
            [] quoting = "double" ->
                 IF c = "\""
                 THEN ShellWordsFrom(s, i + 1, "plain", cur, TRUE, words)
                 ELSE IF c = "\\" /\ i < Len(s) /\ s[i + 1] \in {"\"", "\\", "$", BACKTICK}
                 THEN ShellWordsFrom(s, i + 2, "double", Append(cur, s[i + 1]), TRUE, words)
                 ELSE ShellWordsFrom(s, i + 1, "double", Append(cur, c), TRUE, words)
            [] OTHER ->
                 IF c = " "
                 THEN ShellWordsFrom(s, i + 1, "plain", <<>>, FALSE,
                                     IF begun THEN Append(words, cur) ELSE words)
                 ELSE IF c = "'" THEN ShellWordsFrom(s, i + 1, "single", cur, TRUE, words)
                 ELSE IF c = "\"" THEN ShellWordsFrom(s, i + 1, "double", cur, TRUE, words)
                 ELSE IF c = "\\" /\ i < Len(s)
                 THEN ShellWordsFrom(s, i + 2, "plain", Append(cur, s[i + 1]), TRUE, words)
                 ELSE ShellWordsFrom(s, i + 1, "plain", Append(cur, c), TRUE, words)

\* the words bash makes of the text s
ShellWords(s) == ShellWordsFrom(s, 1, "plain", <<>>, FALSE, <<>>)

\* configured command values: bare names, a flag, a path, arguments in
\* double and in single quotes, surrounding blanks, a rejected value
ScriptCommands ==
  {Expand(<<"codex">>),
   Expand(<<"claude", " ", "-", "a">>),
   Expand(<<"a", "/", "gemini">>),
   Expand(<<"gemini", " ", "\"", "-", "a", " ", "a", "\"">>),
   Expand(<<"codex", " ", "'", "a", " ", "a", "'">>),
   Expand(<<" ", "claude", " ", " ", "a", " ">>),
   Expand(<<"rm", " ", "a">>)}

\* the exit codes of the target command that are followed
TargetCodes == {0, 1, 127}

\* what the target command writes
TargetOutputs == {"", "answer\n", "usage: bad flag"}

\* the payloads written to the script's standard input
ScriptPayloads == {"SYSTEM ROLE:\nplanner\n"}

\* lines 104-105: the two echo statements appended to the output file
Diagnostics(code, code2, key) ==
  "[Unified AI Council] CLI invocation failed (stdin + arg fallback). Exit: "
    \o ToString(code) \o " / " \o ToString(code2) \o "\n"
    \o "[Unified AI Council] Tip: set unifiedAiCouncil.cli." \o key
    \o ".command to include proper flags for your CLI.\n"

\* runCouncilMember lines 43-57: the command is looked up and, if valid,
\* the script is made of it
MakeScript(member, raw) ==
  /\ script.at = "none"
  /\ LET cmdResult == getCliCommand(member, raw)
     IN script' =
          IF cmdResult.error # ""
          THEN [script EXCEPT !.at = "refused"]
          ELSE [script EXCEPT !.at = "made",
                              !.cli = cmdResult.cmd,
                              !.safeCli = EscapeSingleQuotes(cmdResult.cmd),
                              !.key = inferKey(cmdResult.cmd)]
  /\ UNCHANGED <<vvars, callVars, envVars, runVars, llmVars, ownerVars, remoteVars>>

\* lines 87-90: the temporary directory is made and standard input is
\* written to the payload file
Capture(payload) ==
  /\ script.at = "made"
  /\ script' = [script EXCEPT !.at = "captured", !.payload = payload]
  /\ UNCHANGED <<vvars, callVars, envVars, runVars, llmVars, ownerVars, remoteVars>>

\* mktemp or the write fails under set -e: the script exits
CaptureFails ==
  /\ script.at = "made"
  /\ script' = [script EXCEPT !.at = "exited", !.exit = 1]
  /\ UNCHANGED <<vvars, callVars, envVars, runVars, llmVars, ownerVars, remoteVars>>

\* line 94 cannot be parsed: a quotation opened in the command text is not
\* closed in it (the text after it has no single quote but in the copy of
\* the command at line 100, which leaves it open again), and bash gives up
\* with a syntax error
SyntaxError ==
  /\ script.at = "captured"
  /\ ~ShellWords(script.safeCli).closed
  /\ script' = [script EXCEPT !.at = "exited", !.exit = 2]
  /\ UNCHANGED <<vvars, callVars, envVars, runVars, llmVars, ownerVars, remoteVars>>

\* lines 93-96: the command runs with the payload piped to it; its output
\* replaces the output file
FirstInvocation(code, text) ==
  /\ script.at = "captured"
  /\ ShellWords(script.safeCli).closed
  /\ script' = [script EXCEPT
       !.at = IF code # 0 THEN "retry" ELSE "emit",
       !.invocations = Append(@, [mode |-> "stdin", words |-> ShellWords(script.safeCli).words,
                                  stdin |-> script.payload, arg |-> "", output |-> text]),
       !.codes = Append(@, code),
       !.out = text]
  /\ UNCHANGED <<vvars, callVars, envVars, runVars, llmVars, ownerVars, remoteVars>>

\* the script as if it retried whatever the first exit code was
SecondInvocationAlways(code2, text) ==
  /\ script.at \in {"retry", "emit"}
  /\ Len(script.invocations) = 1
  /\ script' = [script EXCEPT
       !.at = "emit",
       !.invocations = Append(@, [mode |-> "arg", words |-> ShellWords(script.safeCli).words,
                                  stdin |-> "", arg |-> script.payload, output |-> text]),
       !.codes = Append(@, code2),
       !.out = text]
  /\ UNCHANGED <<vvars, callVars, envVars, runVars, llmVars, ownerVars, remoteVars>>

\* lines 98-107: after a nonzero exit the command runs again with the
\* payload as its last argument; its output replaces the output file, and
\* after a second nonzero exit the two diagnostic lines are appended
SecondInvocation(code2, text) ==
  /\ script.at = "retry"
  /\ script' = [script EXCEPT
       !.at = "emit",
       !.invocations = Append(@, [mode |-> "arg", words |-> ShellWords(script.safeCli).words,
                                  stdin |-> "", arg |-> script.payload, output |-> text]),
       !.codes = Append(@, code2),
       !.out = IF code2 # 0
               THEN text \o Diagnostics(script.codes[1], code2, script.key)
               ELSE text,
       !.diagnosed = code2 # 0]
  /\ UNCHANGED <<vvars, callVars, envVars, runVars, llmVars, ownerVars, remoteVars>>

\* line 109: the output file is written to standard output
Emit ==
  /\ script.at = "emit"
  /\ script' = [script EXCEPT !.at = "exited", !.stdout = script.out, !.exit = 0]
  /\ UNCHANGED <<vvars, callVars, envVars, runVars, llmVars, ownerVars, remoteVars>>

NextScript ==
  \/ \E member \in Members, raw \in ScriptCommands : MakeScript(member, raw)
  \/ \E payload \in ScriptPayloads : Capture(payload)
  \/ CaptureFails
  \/ SyntaxError
  \/ \E code \in TargetCodes, text \in TargetOutputs : FirstInvocation(code, text)
  \/ \E code2 \in TargetCodes, text \in TargetOutputs : SecondInvocation(code2, text)
  \/ Emit

SpecScript == Init /\ [][NextScript]_vars

(***************************************************************************)
(* LocalModelSynthesizer.synthesizeWithOllama: the request and its answer  *)
(***************************************************************************)
\* values of config.baseUrl
BaseUrls ==
  {"http://127.0.0.1:11434", "http://localhost:11434/", " https://ollama.example.com// ",
   "HTTP://localhost:11434", "file:///etc/passwd", "not-a-valid-url", "ftp://example.com",
   "javascript:alert(1)", "https://ollama.example.com:8443"}

RECURSIVE StripSlashes(_)
\* s.replace(/\/+$/, '')
StripSlashes(s) ==
  IF s # "" /\ CharAt(s, Len(s)) = "/" THEN StripSlashes(SubSeq(s, 1, Len(s) - 1)) ELSE s

\* normalizeBaseUrl
normalizeBaseUrl(url) ==
  LET u == StripSlashes(StrTrim(url))
  IN IF Len(u) > 0 THEN u ELSE "http://127.0.0.1:11434"

\* configured values under unifiedAiCouncil.orchestrator.ollama; a number
\* is written as its decimal text, "unset" is a key without a value
OllamaSettings ==
  {[baseUrl |-> "unset", model |-> "unset", temperature |-> "unset", topP |-> "unset",
    maxTokens |-> "unset"],
   [baseUrl |-> "http://127.0.0.1:11434", model |-> "qwen2.5:7b", temperature |-> "0.7",
    topP |-> "0.8", maxTokens |-> "1200"],
   [baseUrl |-> " http://127.0.0.1:11434/ ", model |-> " ", temperature |-> "NaN",
    topP |-> "NaN", maxTokens |-> "40"]}

\* the number written as text
NumberOf(text) == CASE text = "40" -> 40 [] text = "1200" -> 1200

\* Settings.ollamaConfig: the record it returns has the fields baseUrl,
\* model, temperature, topP and maxTokens
ollamaConfig(raw) ==
  [baseUrl |-> IF raw.baseUrl = "unset" \/ StrTrim(raw.baseUrl) = ""
               THEN "http://localhost:11434" ELSE StrTrim(raw.baseUrl),
   model |-> IF raw.model = "unset" \/ StrTrim(raw.model) = ""
             THEN "llama3.2:3b" ELSE StrTrim(raw.model),
   temperature |-> IF raw.temperature \in {"unset", "NaN"} THEN "0.2" ELSE raw.temperature,
   topP |-> IF raw.topP \in {"unset", "NaN"} THEN "0.95" ELSE raw.topP,
   maxTokens |-> IF raw.maxTokens \notin {"unset", "NaN"} /\ NumberOf(raw.maxTokens) > 50
                 THEN raw.maxTokens ELSE "900"]

\* lines 188-192: the options of the request body, an option being there
\* when the config has a number under the name the synthesizer reads:
\* temperature, top_p, maxTokens
RequestOptions(config) ==
  LET names == {f \in {"temperature", "top_p", "maxTokens"} : f \in DOMAIN config}
      key(f) == IF f = "maxTokens" THEN "num_predict" ELSE f
  IN [k \in {key(f) : f \in names} |->
        config[CHOOSE f \in names : key(f) = k]]

\* lines 184-193: the request body without its prompt
RequestBody(config) ==
  [model |-> config.model, stream |-> FALSE, options |-> RequestOptions(config)]

\* synthesizeWithOllama up to its await of fetch: the URL is built, the
\* body is made of the config, the request is logged and fetch is called
\* with method, headers and body
SynthesizeWithOllamaConfig(config) ==
  /\ ollama.at = "idle"
  /\ ollama' = [ollama EXCEPT !.at = "fetching",
                              !.baseUrl = config.baseUrl,
                              !.url = normalizeBaseUrl(config.baseUrl) \o "/api/generate",
                              !.signal = FALSE,
                              !.log = {"Ollama synth request"},
                              !.config = config,
                              !.body = RequestBody(config)]
  /\ UNCHANGED <<vvars, callVars, envVars, runVars, llmVars, ownerVars, scriptVars>>

\* synthesizeWithOllama called with a config of a base URL and a model
SynthesizeWithOllama(baseUrl) ==
  SynthesizeWithOllamaConfig([baseUrl |-> baseUrl, model |-> "llama3.2:3b"])

\* fetch settles and synthesizeWithOllama goes on to its end; resp is what
\* the service did
FetchSettles(resp) ==
  /\ ollama.at = "fetching"
  /\ LET out == synthesizeWithOllama(resp)
     IN ollama' = [ollama EXCEPT !.at = "settled", !.threw = out.threw,
                                 !.value = out.value]
  /\ UNCHANGED <<vvars, callVars, envVars, runVars, llmVars, ownerVars, scriptVars>>

NextOllama ==
  \/ \E baseUrl \in BaseUrls : SynthesizeWithOllama(baseUrl)
  \/ \E resp \in OllamaResponses : FetchSettles(resp)

\* the steps of the program are taken when they can be; nothing makes the
\* service answer
SpecOllama ==
  Init /\ [][NextOllama]_vars /\ WF_vars(\E baseUrl \in BaseUrls : SynthesizeWithOllama(baseUrl))

(***************************************************************************)
(* The pre-pass prompt build on its own                                    *)
(***************************************************************************)
\* user texts of a request
PromptTexts ==
  {"Add input validation to the login form", "fix the build\nthen run the tests",
   "TASK: none", ""}

\* memory contexts and workspace hints of a request
ContextTexts == {"", "(no saved project memory yet)", "file: package.json"}

\* what the model can do for the pre-pass: as for any generate call, or
\* fail while generating
PrePassOutcomes ==
  LlmOutcomes \cup {[ok |-> FALSE, text |-> "Generation failed: out of memory"]}

InitPrompt ==
  /\ userText \in PromptTexts
  /\ memoryContext \in ContextTexts
  /\ fileContext \in ContextTexts
  /\ pc = "idle"
  /\ opts = [architect |-> TRUE, memory |-> TRUE, consensus |-> TRUE, fast |-> FALSE]
  /\ mode = "plan"
  /\ engine = "embedded"
  /\ embeddedLlm = "instance"
  /\ llm = "instance"
  /\ councilPrompt = ""
  /\ responseContract = ""
  /\ run = [m \in Members |-> NoRun]
  /\ chunks = 0
  /\ arrival = <<>>
  /\ council = NoCouncil
  /\ final = ""
  /\ result = ""
  /\ memReads = 0
  /\ memEntries = <<>>
  /\ synthCalls = [heuristic |-> 0, llm |-> 0, ollama |-> 0]
  /\ service = NoRequest
  /\ generated = NoGeneration
  /\ memErrors = {}
  /\ workspace = TRUE
  /\ InitValidator
  /\ InitLlm
  /\ InitOwner
  /\ InitRemote
  /\ InitScript

\* the BuildInput that runCouncil hands to the build
PromptInput ==
  [userText |-> userText, mode |-> MODE_PROFILES[mode].name,
   councilGoal |-> MODE_PROFILES[mode].councilGoal,
   memoryContext |-> memoryContext, fileContext |-> fileContext]

\* NanoOrchestrator.buildCouncilPromptWithLlm is called and returns; gen
\* is what the model did for its generate call
BuildCouncilPromptWithLlm(gen) ==
  /\ generated = NoGeneration
  /\ LET built == buildCouncilPromptWithLlm(PromptInput, generate(gen))
     IN /\ councilPrompt' = built.councilPrompt
        /\ responseContract' = built.responseContract
  /\ generated' = gen
  /\ UNCHANGED <<pc, opts, mode, userText, memoryContext, fileContext, engine, embeddedLlm,
                 llm, council, final, result>>
  /\ UNCHANGED <<runVars, memReads, memEntries, synthCalls, service, workspace, memErrors,
                 vvars, llmVars, ownerVars, remoteVars, scriptVars>>

NextPrompt == \E gen \in PrePassOutcomes : BuildCouncilPromptWithLlm(gen)

SpecPrompt == InitPrompt /\ [][NextPrompt]_vars

(***************************************************************************)
(* runCouncil to its end, the remote synthesis in its own steps: the       *)
(* request, the answer if one comes, and what runCouncil makes of it       *)
(***************************************************************************)
\* lines 217-243: with the remote engine runCouncil reads ollamaConfig
\* and calls synthesizeWithOllama with it, which sends the request; raw is
\* what is configured
OllamaRequest(raw) ==
  /\ pc = "synth"
  /\ engine = "ollama"
  /\ SynthesizeWithOllamaConfig(ollamaConfig(raw))

\* the service answers, or fetch fails, and synthesizeWithOllama settles
OllamaAnswer(resp) ==
  /\ pc = "synth"
  /\ FetchSettles(resp)

\* lines 235-247: the await of synthesizeWithOllama ends; its value is
\* the final text, or the heuristic strategy's if it threw
SynthesizeAfterFetch ==
  /\ pc = "synth"
  /\ ollama.at = "settled"
  /\ final' = IF ollama.threw THEN synthesize(SynthesisInput) ELSE ollama.value
  /\ synthCalls' = [synthCalls EXCEPT !.ollama = @ + 1,
                                      !.heuristic = IF ollama.threw THEN @ + 1 ELSE @]
  /\ pc' = "persist"
  /\ UNCHANGED <<opts, mode, userText, memoryContext, fileContext, engine, embeddedLlm, llm,
                 councilPrompt, responseContract, council, result>>
  /\ UNCHANGED <<runVars, memReads, memEntries, service, generated, workspace, memErrors,
                 vvars, llmVars, ownerVars, remoteVars, scriptVars>>

\* the options followed to the end: a merged answer is asked for
LiveOptions == {o \in OptionSets : o.consensus /\ o.fast}

\* every member's command setting names its own executable
OwnCommands == [m \in Members |-> Expand(<<m>>)]

LiveRunCouncil == \E o \in LiveOptions, md \in Modes, ut \in UserTexts : RunCouncil(o, md, ut)

LiveGatherContext == \E rd \in MemoryReads, hints \in WorkspaceHints : GatherContext(rd, hints)

LiveBuildPrompt == \E e \in {"nano", "ollama"} : BuildPrompt(e, FALSE, NoGeneration)

LiveFanout == \E t \in TimeoutSettings : Fanout(t, OwnCommands)

LiveTimerFire(m) == ~run[m].resolved /\ TimerFire(m)

LiveSynthesize == engine # "ollama" /\ Synthesize(NoGeneration, NoRequest)

LiveOllamaRequest == \E raw \in OllamaSettings : OllamaRequest(raw)

LivePersist == \E written \in BOOLEAN : Persist(written)

\* the steps of the program itself: its calls and continuations, and its
\* timers
ProgramStep ==
  \/ LiveRunCouncil
  \/ LiveGatherContext
  \/ LiveBuildPrompt
  \/ LiveFanout
  \/ \E m \in Members : LiveTimerFire(m)
  \/ Collect
  \/ LiveSynthesize
  \/ LiveOllamaRequest
  \/ SynthesizeAfterFetch
  \/ LivePersist

\* what the member processes and the remote service do, if they do anything
EnvironmentStep ==
  \/ \E m \in Members, cause \in ErrorCauses : ~run[m].resolved /\ ChildError(m, cause)
  \/ \E m \in Members, code \in {"0"} : ~run[m].resolved /\ ChildClose(m, code)
  \/ \E resp \in OllamaResponses : OllamaAnswer(resp)

NextLive == ProgramStep \/ EnvironmentStep

\* the fan-out can run: LiveFanout is enabled
FanoutReady == pc = "fanout"

\* the synthesis can run or resume: LiveSynthesize or SynthesizeAfterFetch
\* is enabled
SynthesisReady ==
  /\ pc = "synth"
  /\ engine # "ollama" \/ ollama.at = "settled"

\* timers fire and the program's own steps are taken when they can be:
\* weak fairness of every program step.  The fan-out and the synthesis
\* leave the pc they are enabled at, so their weak fairness is that they
\* do not stay enabled for ever.
Fairness ==
  /\ WF_vars(LiveRunCouncil)
  /\ WF_vars(LiveGatherContext)
  /\ WF_vars(LiveBuildPrompt)
  /\ []<>(~FanoutReady)
  /\ \A m \in Members : WF_vars(LiveTimerFire(m))
  /\ WF_vars(Collect)
  /\ []<>(~SynthesisReady)
  /\ WF_vars(LiveOllamaRequest)
  /\ WF_vars(LivePersist)

\* no process has to exit and the service does not have to answer
SpecLive == Init /\ [][NextLive]_vars /\ Fairness

(***************************************************************************)
(* Properties of the validator (checked under SpecValidate)                *)
(***************************************************************************)
\* the characters of [A-Za-z0-9_] that commands are spelled with
ShellWordChars ==
  {"a", "c", "d", "e", "g", "i", "l", "m", "n", "o", "r", "u", "x"}

\* cmd has one of the shell constructs: one of ; & | backtick < >, or $
\* followed by ( or { or a word character, or && or ||, or an odd number
\* of single quotes or of double quotes
HasShellConstruct(cmd) ==
  \/ \E i \in 1..Len(cmd) : cmd[i] \in {";", "&", "|", BACKTICK, "<", ">"}
  \/ \E i \in 1..(Len(cmd) - 1) :
       cmd[i] = "$" /\ cmd[i + 1] \in ({"(", "{"} \cup ShellWordChars)
  \/ \E i \in 1..(Len(cmd) - 1) : cmd[i] = "&" /\ cmd[i + 1] = "&"
  \/ \E i \in 1..(Len(cmd) - 1) : cmd[i] = "|" /\ cmd[i + 1] = "|"
  \/ Cardinality({i \in 1..Len(cmd) : cmd[i] = "'"}) % 2 = 1
  \/ Cardinality({i \in 1..Len(cmd) : cmd[i] = "\""}) % 2 = 1

\* C9: a command with a shell construct (see HasShellConstruct) is
\* rejected, ok = FALSE, whatever its leading executable is
C9_ShellConstructsRejected ==
  (vdone /\ HasShellConstruct(vcmd)) => ~vres.ok

\* C9 happens: a command that leads with an allowed executable and has a
\* redirection has been rejected
C9_Witness ==
  /\ vdone
  /\ vcmd = Expand(<<"codex", " ", ">">>)
  /\ ~vres.ok

\* the positions of cmd that hold no whitespace
NonSpaceAt(cmd) == {i \in 1..Len(cmd) : cmd[i] \notin {" ", "\n", "\t", "\r"}}

\* the first whitespace-delimited token of cmd (empty if there is none)
LeadingToken(cmd) ==
  IF NonSpaceAt(cmd) = {} THEN <<>>
  ELSE LET first == CHOOSE i \in NonSpaceAt(cmd) : \A j \in NonSpaceAt(cmd) : i <= j
           last == CHOOSE i \in first..Len(cmd) :
                     /\ \A j \in first..i : j \in NonSpaceAt(cmd)
                     /\ (i = Len(cmd) \/ (i + 1) \notin NonSpaceAt(cmd))
       IN SubSeq(cmd, first, last)

\* what follows the last slash of a token
AfterLastSlash(tok) ==
  LET slashes == {i \in 1..Len(tok) : tok[i] = "/"}
  IN IF slashes = {} THEN tok
     ELSE SubSeq(tok, (CHOOSE i \in slashes : \A j \in slashes : j <= i) + 1, Len(tok))

\* C10: ok = TRUE only for a command whose first whitespace-delimited token
\* has codex, claude or gemini after its last slash and is spelled with
\* letters, digits, dot, underscore, slash and dash only; every other
\* command gets ok = FALSE with a reason
C10_AcceptedOnlyAllowlisted ==
  vdone =>
    /\ vres.ok \in BOOLEAN
    /\ vres.ok =>
         LET tok == LeadingToken(vcmd)
         IN /\ AfterLastSlash(tok) \in
                 {<<"c", "o", "d", "e", "x">>, <<"c", "l", "a", "u", "d", "e">>,
                  <<"g", "e", "m", "i", "n", "i">>}
            /\ \A i \in 1..Len(tok) : tok[i] \in (ShellWordChars \cup {".", "_", "/", "-"})
    /\ ~vres.ok => vres.reason # ""

\* C10 happens: a path that ends in an allowed name has been accepted
C10_Witness ==
  /\ vdone
  /\ vcmd = Expand(<<"a", "/", "codex">>)
  /\ vres.ok

(***************************************************************************)
(* Properties of one member run (checked under SpecRunner)                 *)
(***************************************************************************)
\* C1: in every order of close, error and the timer, the promise of a run
\* is settled exactly once, with the outcome of the event that came first:
\* no later event changes the outcome, settles it again or kills the child
C1_SettledOnceByFirstEvent ==
  \A m \in Members :
    LET r == run[m]
    IN /\ r.settles <= 1
       /\ r.kills <= 1
       /\ (r.spawns = 1 /\ r.events = <<>>) => (r.status = "pending" /\ r.settles = 0)
       /\ r.events # <<>> =>
            /\ r.settles = 1
            /\ r.events[1] = "timeout" =>
                 (r.status = "rejected" /\ r.value = TimeoutMessage(m, r.timeoutMs))
            /\ r.events[1] = "error" => (r.status = "rejected" /\ r.value \in ErrorCauses)
            /\ r.events[1] = "close" =>
                 /\ r.status = "fulfilled"
                 /\ r.value \in {CloseText(m, r.stdout, r.stderr, code) : code \in ExitCodes}
                 /\ r.kills = 0

\* C1 happens: a run has seen all three events, the timer first
C1_Witness ==
  \E m \in Members :
    /\ Len(run[m].events) = 3
    /\ run[m].events[1] = "timeout"
    /\ run[m].status = "rejected"

\* C5: when the timer is the first of the three events, the child is
\* killed and the run rejects with "<member> timed out after <timeoutMs>ms"
C5_TimeoutKillsAndRejects ==
  \A m \in Members :
    (run[m].events # <<>> /\ run[m].events[1] = "timeout") =>
      /\ run[m].kills = 1
      /\ run[m].status = "rejected"
      /\ \E t \in RunnerTimeouts :
           /\ run[m].timeoutMs = t
           /\ run[m].value = m \o " timed out after " \o ToString(t) \o "ms"

\* C5 happens: the timer of a run armed with 50 ms has fired before any
\* close or error
C5_Witness ==
  \E m \in Members :
    /\ run[m].events = <<"timeout">>
    /\ run[m].timeoutMs = 50
    /\ run[m].kills = 1
    /\ run[m].value = m \o " timed out after 50ms"

(***************************************************************************)
(* Properties of the coordinator (checked under Spec)                      *)
(***************************************************************************)
\* the three texts of this call have been taken from the settled runs
Collected == council # NoCouncil

\* the members this call schedules
ScheduledNow == IF opts.fast THEN {"codex", "claude"} ELSE {"codex", "claude", "gemini"}

\* the slot text that belongs to the outcome of m's own run
OwnText(m) ==
  IF run[m].status = "fulfilled" THEN run[m].value ELSE "ERROR: Error: " \o run[m].value

\* C2: a failing member run cancels, kills, skips or changes no other
\* run: a child is killed by the timer of its own run only, the outcome of
\* a run is that of its own first event, and once the texts are collected
\* every scheduled member was run and has settled, a failed run's slot
\* reads "ERROR: <cause>" and every other slot holds that run's own text
C2_FailureIsolated ==
  /\ \A m \in Members :
       /\ run[m].kills >= 1 => (run[m].events # <<>> /\ run[m].events[1] = "timeout")
       /\ (run[m].events # <<>> /\ run[m].events[1] = "close") =>
            (run[m].status = "fulfilled" /\ run[m].value = CloseText(m, run[m].stdout, "", "0"))
       /\ (run[m].events # <<>> /\ run[m].events[1] # "close") => run[m].status = "rejected"
  /\ Collected =>
       \A m \in ScheduledNow :
         /\ run[m].called = 1
         /\ run[m].status \in {"fulfilled", "rejected"}
         /\ run[m].status = "rejected" => council[m] = "ERROR: Error: " \o run[m].value
         /\ run[m].status = "fulfilled" => council[m] = run[m].value

\* C2 happens: the texts are collected, one run was rejected and another
\* one, which had written output, holds its own text
C2_Witness ==
  /\ Collected
  /\ \E m \in ScheduledNow, n \in ScheduledNow :
       /\ run[m].status = "rejected"
       /\ council[m] = "ERROR: Error: spawn wsl.exe ENOENT"
       /\ run[n].status = "fulfilled"
       /\ run[n].stdout # ""
       /\ run[n].kills = 0
       /\ council[n] = StrTrim(run[n].stdout)

\* remote call of this synthesis failed: service unreachable, status
\* outside 200..299, an error field, or a response that trims to nothing
RemoteFailed ==
  /\ service # NoRequest
  /\ \/ ~service.reachable
     \/ service.status < 200
     \/ service.status > 299
     \/ service.error # ""
     \/ StrTrim(service.response) = ""

\* C3: with the remote engine configured, a failed remote call makes
\* runCouncil return exactly the text of the heuristic strategy for the
\* same synthesis input
C3_RemoteFailureFallsBack ==
  (pc = "done" /\ opts.consensus /\ engine = "ollama" /\ RemoteFailed) =>
    result = synthesize(SynthesisInput)

\* C3 happens: the service answered 200 with a blank response and the call
\* returned the heuristic text
C3_Witness ==
  /\ pc = "done"
  /\ engine = "ollama"
  /\ service.reachable
  /\ service.status = 200
  /\ service.error = ""
  /\ service.response = " \n"
  /\ result = synthesize(SynthesisInput)

\* s ends with t
EndsWith(s, t) == Len(s) >= Len(t) /\ SubSeq(s, Len(s) - Len(t) + 1, Len(s)) = t

\* the member runs of this call have been started
FannedOut == pc \in {"await", "synth", "persist"} \/ Collected

\* C4: with fast set, exactly codex and claude are run, gemini never
\* reaches the runner, and its slot reads "[skipped]" in the collected
\* texts, in the raw rendering, in the synthesis input and in the saved
\* entry; with fast unset, exactly the three members are run
C4_FastSkipsGemini ==
  FannedOut =>
    /\ run["codex"].called = 1
    /\ run["claude"].called = 1
    /\ ~opts.fast => run["gemini"].called = 1
    /\ opts.fast =>
         /\ run["gemini"].called = 0
         /\ run["gemini"].spawns = 0
         /\ run["gemini"].events = <<>>
         /\ Collected => council.gemini = "[skipped]"
         /\ (pc = "done" /\ ~opts.consensus) => EndsWith(result, "### Gemini\n[skipped]")
         /\ pc \in {"synth", "persist"} => SynthesisInput.council.gemini = "[skipped]"
         /\ \A i \in 1..Len(memEntries) : memEntries[i].council.gemini = "[skipped]"

\* C4 happens: a fast call has saved its entry
C4_Witness ==
  /\ opts.fast
  /\ pc = "done"
  /\ run["codex"].called = 1
  /\ run["gemini"].called = 0
  /\ Len(memEntries) = 1
  /\ memEntries[1].council.gemini = "[skipped]"

\* C6: each slot holds the text of the run of its own member, whatever the
\* order the runs settled in, and the raw rendering lists the slots in the
\* order codex, claude, gemini
C6_TextsBySlot ==
  Collected =>
    /\ council.codex = OwnText("codex")
    /\ council.claude = OwnText("claude")
    /\ ~opts.fast => council.gemini = OwnText("gemini")
    /\ (pc = "done" /\ ~opts.consensus) =>
         EndsWith(result,
                  "### Codex\n" \o OwnText("codex")
                    \o "\n\n---\n\n### Claude Code\n" \o OwnText("claude")
                    \o "\n\n---\n\n### Gemini\n"
                    \o (IF opts.fast THEN "[skipped]" ELSE OwnText("gemini")))

\* C6 happens: the runs settled in the order gemini, claude, codex, with
\* three different texts, and the texts are collected
C6_Witness ==
  /\ Collected
  /\ arrival = <<"gemini", "claude", "codex">>
  /\ council.codex # council.claude
  /\ council.claude # council.gemini
  /\ council.codex # council.gemini

\* C7: without a workspace folder runCouncil returns "Open a workspace
\* folder first." and nothing else happens: no member run, no memory read
\* or write, no synthesis strategy and no backend
C7_NoWorkspaceNoWork ==
  (pc # "idle" /\ ~workspace) =>
    /\ pc = "done"
    /\ result = "Open a workspace folder first."
    /\ \A m \in Members : run[m].called = 0 /\ run[m].spawns = 0
    /\ memReads = 0
    /\ memEntries = <<>>
    /\ synthCalls = [heuristic |-> 0, llm |-> 0, ollama |-> 0]
    /\ service = NoRequest
    /\ embeddedLlm = "null"
    /\ council = NoCouncil

\* C7 happens: a call without a workspace folder has returned
C7_Witness ==
  /\ ~workspace
  /\ pc = "done"
  /\ result = "Open a workspace folder first."

\* the command configured for m's run (blank means the default) fails
\* validation
ConfiguredInvalid(m) ==
  Trim(run[m].raw) # <<>> /\ ~validateCliCommand(Trim(run[m].raw)).ok

\* C8: a member whose configured command fails validation gets no process:
\* its run resolves with a configuration-error text that names the member,
\* and the other members are spawned as usual
C8_InvalidCommandNoSpawn ==
  \A m \in Members :
    (run[m].called = 1 /\ ConfiguredInvalid(m)) =>
      /\ run[m].spawns = 0
      /\ run[m].status = "fulfilled"
      /\ LET prefix == "[" \o m \o "] Configuration error: "
         IN Len(run[m].value) > Len(prefix) /\ SubSeq(run[m].value, 1, Len(prefix)) = prefix
      /\ \A n \in Members \ {m} :
           (run[n].called = 1 /\ ~ConfiguredInvalid(n)) => run[n].spawns = 1

\* C8 happens: one member has an invalid command and resolved without a
\* process while another member's child was spawned
C8_Witness ==
  \E m \in Members, n \in Members :
    /\ run[m].called = 1
    /\ ConfiguredInvalid(m)
    /\ run[m].spawns = 0
    /\ run[m].status = "fulfilled"
    /\ run[n].called = 1
    /\ ~ConfiguredInvalid(n)
    /\ run[n].spawns = 1

(***************************************************************************)
(* Properties of the validator on commands with arguments (checked under   *)
(* SpecCommand)                                                            *)
(***************************************************************************)
\* t occurs in s
Contains(s, t) == \E i \in 0..(Len(s) - Len(t)) : SubSeq(s, i + 1, i + Len(t)) = t

\* C11: a command whose first token is codex, claude or gemini and whose
\* flags and quoted arguments have none of the forbidden characters (no
\* shell construct, see HasShellConstruct, and no line break) gets
\* ok = TRUE and a normalized string that contains the executable name
C11_AllowlistedWithArgsAccepted ==
  (/\ vdone
   /\ LeadingToken(vcmd) \in
        {<<"c", "o", "d", "e", "x">>, <<"c", "l", "a", "u", "d", "e">>,
         <<"g", "e", "m", "i", "n", "i">>}
   /\ ~HasShellConstruct(vcmd)
   /\ \A i \in 1..Len(vcmd) : vcmd[i] \notin {"\n", "\r"})
  => (vres.ok /\ Contains(vres.normalized, LeadingToken(vcmd)))

\* C11 happens: claude with a flag and a quoted argument, separated by a
\* tab and by two spaces, has been accepted
C11_Witness ==
  /\ vdone
  /\ vcmd = Expand(<<"claude", "\t", "-", "-", "a", " ", " ", "\"", "a", "\"">>)
  /\ vres.ok
  /\ vres.normalized = Expand(<<"claude", " ", "-", "-", "a", " ", "\"", "a", "\"">>)

RECURSIVE TokensFrom(_, _)
\* the whitespace-delimited tokens of cmd after cur, the token being read
TokensFrom(cmd, cur) ==
  IF cmd = <<>> THEN (IF cur = <<>> THEN <<>> ELSE <<cur>>)
  ELSE IF Head(cmd) \in {" ", "\n", "\t", "\r"}
       THEN (IF cur = <<>> THEN <<>> ELSE <<cur>>) \o TokensFrom(Tail(cmd), <<>>)
       ELSE TokensFrom(Tail(cmd), Append(cur, Head(cmd)))

RECURSIVE SpaceJoined(_)
\* tokens joined by single spaces
SpaceJoined(toks) ==
  IF toks = <<>> THEN <<>>
  ELSE IF Len(toks) = 1 THEN toks[1]
  ELSE toks[1] \o <<" ">> \o SpaceJoined(Tail(toks))

\* the tokens of cmd joined by single spaces
SingleSpaced(cmd) == SpaceJoined(TokensFrom(cmd, <<>>))

\* C12 as stated: whitespace is normalized before the command is judged,
\* so a command is accepted whenever its tokens joined by single spaces
\* are, whether newlines, tabs or spaces separate or surround them, and
\* the normalized result is those tokens joined by single spaces
C12_JudgedAfterNormalizing ==
  (vdone /\ validateCliCommand(SingleSpaced(vcmd)).ok)
  => (vres.ok /\ vres.normalized = SingleSpaced(vcmd))

(***************************************************************************)
(* Properties of the synthesis step (checked under Spec)                   *)
(***************************************************************************)
\* the embedded model was asked for the synthesis and its load or its
\* generation failed
GenerationFailed == generated # NoGeneration /\ ~generated.ok

\* C13: with the embedded engine selected, when the load or the generation
\* fails, or when there is no embedded generator (disabled), runCouncil
\* returns exactly the heuristic text for the same synthesis input, which
\* does not begin with "## Synthesized Result"
C13_EmbeddedFailureFallsBack ==
  (/\ pc = "done"
   /\ workspace
   /\ opts.consensus
   /\ engine = "embedded"
   /\ (llm = "null" \/ GenerationFailed))
  => (/\ result = synthesize(SynthesisInput)
      /\ SubSeq(result, 1, 21) # "## Synthesized Result")

\* C13 happens: the embedded generator was there, its generation failed and
\* the call returned the heuristic text
C13_Witness ==
  /\ pc = "done"
  /\ engine = "embedded"
  /\ llm # "null"
  /\ GenerationFailed
  /\ synthCalls.llm = 1
  /\ result = synthesize(SynthesisInput)

\* the backend asked for the synthesis answered with nothing but whitespace
BlankAnswer ==
  \/ /\ engine = "embedded"
     /\ llm # "null"
     /\ generated.ok
     /\ StrTrim(generated.text) = ""
  \/ /\ engine = "ollama"
     /\ service.reachable
     /\ service.status >= 200
     /\ service.status <= 299
     /\ service.error = ""
     /\ StrTrim(service.response) = ""

\* C14 as stated: for the embedded and for the remote engine, a blank
\* answer of the backend makes runCouncil return the heuristic text for
\* the same synthesis input
C14_BlankAnswerFallsBack ==
  (pc = "done" /\ workspace /\ opts.consensus /\ BlankAnswer) =>
    result = synthesize(SynthesisInput)

\* C15: with consensus off runCouncil returns the raw rendering (mode, then
\* label and text of codex, claude, gemini) and no synthesis strategy runs:
\* no heuristic merge, no embedded generation, no remote request
C15_RawReturnNoSynthesis ==
  (pc = "done" /\ workspace /\ ~opts.consensus) =>
    /\ result = "Unified AI Council (raw outputs) - mode: " \o MODE_PROFILES[mode].name
                  \o "\n\n---\n\n### Codex\n" \o OwnText("codex")
                  \o "\n\n---\n\n### Claude Code\n" \o OwnText("claude")
                  \o "\n\n---\n\n### Gemini\n"
                  \o (IF opts.fast THEN "[skipped]" ELSE OwnText("gemini"))
    /\ synthCalls = [heuristic |-> 0, llm |-> 0, ollama |-> 0]
    /\ generated = NoGeneration
    /\ service = NoRequest
    /\ final = ""

\* C15 happens: a call with consensus off, the remote engine configured
\* and a rejected member run has returned
C15_Witness ==
  /\ pc = "done"
  /\ workspace
  /\ ~opts.consensus
  /\ engine = "ollama"
  /\ run["claude"].status = "rejected"
  /\ SubSeq(result, 1, 32) = "Unified AI Council (raw outputs)"
  /\ synthCalls.heuristic = 0

(***************************************************************************)
(* Properties of the memory collaborator's use (checked under Spec)        *)
(***************************************************************************)
\* C16 as stated: a call that passed the workspace precondition and has
\* returned wrote exactly one memory entry (user text, mode, final text,
\* the three member texts) if memory is on, on the raw-return path as on
\* the synthesis path, and wrote none if memory is off
C16_OneEntryOnBothPaths ==
  (pc = "done" /\ workspace) =>
    IF opts.memory
    THEN /\ Len(memEntries) = 1
         /\ memEntries[1].userText = userText
         /\ memEntries[1].mode = mode
         /\ memEntries[1].final = result
         /\ memEntries[1].council = council
    ELSE memEntries = <<>>

\* C17 as stated: when the write of the memory entry fails, runCouncil
\* still returns the final answer it computed
C17_WriteFailureIgnored ==
  "write" \in memErrors => (pc = "done" /\ result = final)

\* C18 as stated: when the read of the memory context or of the workspace
\* hints fails, the run is not aborted: the failed context is empty or a
\* placeholder and the call goes on to build the prompt and to fan out
C18_ReadFailureDegrades ==
  /\ "read" \in memErrors =>
       (pc # "rejected" /\ memoryContext \in {"", "(unable to read project memory)"})
  /\ "hints" \in memErrors =>
       (/\ pc \in {"build", "fanout", "await", "synth", "persist", "done"}
                 \/ "write" \in memErrors
        /\ fileContext \in {"", "(unable to read workspace)"})

(***************************************************************************)
(* Properties of EmbeddedLlm (checked under SpecLlm)                       *)
(***************************************************************************)
\* C19: whatever the interleaving of ensureLoaded, generate and dispose
\* calls, at most one load() is in flight, and while one is in flight the
\* isLoading flag is up, so that a caller arriving then waits (for the
\* promise of the load or in the loop) instead of starting a second load
C19_OneLoadInFlight ==
  /\ Cardinality(InFlight) <= 1
  /\ InFlight # {} => isLoading
  /\ \A c \in Callers :
       callers[c].at = "awaiting" => callers[c].load \in 1..Len(loads)

\* a load is in flight while one caller waits for its promise and another,
\* who arrived after a dispose, waits in the loop
C19_Witness ==
  /\ InFlight # {}
  /\ disposes > 0
  /\ \E c \in Callers : callers[c].at = "awaiting" /\ callers[c].load \in InFlight
  /\ \E c \in Callers : callers[c].at = "sleeping"

\* C20: right after dispose() the generator and the error are cleared
\* (isLoaded false, hasError false, getError null), whether or not anything
\* was loaded and however often dispose is called; an error that a dispose
\* cleared is never stored again and no ensureLoaded call throws it, the
\* next call constructs the model again
C20_DisposeClears ==
  /\ lastCall = "dispose" => ~isLoaded /\ ~hasError /\ getError = 0 /\ loading = 0
  /\ loadError \notin cleared
  /\ \A c \in Callers : ~callers[c].stale
  /\ (lastCall = "dispose" /\ InFlight = {} /\ Len(loads) < MaxLoads) =>
       \A c \in Callers :
         ENABLED (ensureLoaded(c, "ensureLoaded") /\ Len(loads') > Len(loads))

\* a load failed, dispose cleared its error, and a later ensureLoaded
\* started a load that built the generator
C20_Witness ==
  /\ cleared # {}
  /\ generator # 0
  /\ generator \notin cleared
  /\ \E c \in Callers : callers[c].at = "returned" /\ callers[c].load = generator

\* C21: while a failed load's error is stored (no dispose since), every
\* step of an ensureLoaded call, whether called for itself or by generate,
\* leaves the error stored, starts no load, and ends the call by throwing
\* that error
C21_FailureCached ==
  [][(loadError # 0 /\ lastCall' = "ensureLoaded") =>
       /\ loadError' = loadError
       /\ loads' = loads
       /\ \A c \in Callers :
            callers'[c] # callers[c] =>
              callers'[c].at = "threw" /\ callers'[c].error = loadError]_vars

\* a load failed, nothing was disposed, and a generate call made after the
\* failure threw the stored error
C21_Witness ==
  /\ loadError # 0
  /\ disposes = 0
  /\ Len(loads) = 1
  /\ \E c \in Callers :
       /\ callers[c].op = "generate"
       /\ callers[c].at = "threw"
       /\ callers[c].load = 0
       /\ callers[c].error = loadError

(***************************************************************************)
(* Properties of CouncilOrchestrator.dispose (checked under SpecDispose)   *)
(***************************************************************************)
\* C22: however often dispose is called, directly or from the two call
\* sites of the extension, no EmbeddedLlm of the coordinator is disposed
\* more than once, and no call throws, also when none was constructed
C22_DisposeIdempotent ==
  /\ \A i \in 1..Len(instances) : instances[i] <= 1
  /\ ~disposeThrew

\* dispose was called twice directly and once from a call site of the
\* extension, and the one instance constructed was disposed
C22_Witness ==
  /\ disposeCalls = 2
  /\ ~orchestratorInstance
  /\ Len(instances) = 1
  /\ instances[1] = 1

(***************************************************************************)
(* Properties of the heuristic strategy (checked under SpecSynth)          *)
(***************************************************************************)
\* the positions of s at which p occurs
Positions(s, p) == {i \in 1..Len(s) : OccursAt(s, p, i)}

\* the index of the line of text that reads header, 0 if there is none
LineOf(text, header) ==
  LET ls == SplitLines(text)
      at == {i \in 1..Len(ls) : ls[i] = header}
  IN IF at = {} THEN 0 ELSE CHOOSE i \in at : \A j \in at : i <= j

\* the bullets of the next-steps section of text, without their markers
BulletsOf(text) ==
  LET ls == SplitLines(text)
      from == LineOf(text, "### Recommended next steps")
      to == LineOf(text, "### Guardrails")
      section == SubSeq(ls, from + 1, to - 1)
      marked == {i \in 1..Len(section) : StartsWith(section[i], "- ")}
  IN [k \in 1..Cardinality(marked) |->
        LET i == CHOOSE i \in marked : Cardinality({j \in marked : j < i}) = k - 1
        IN SubSeq(section[i], 3, Len(section[i]))]

\* the heuristic strategy has produced its output
Synthesized == synthCalls.heuristic = 1 /\ synthCalls.llm = 0 /\ synthCalls.ollama = 0

\* C23: whatever the three member texts are (prose, an ERROR text,
\* [skipped], empty), the output of the heuristic strategy starts with the
\* '## Result' header, has a next-steps section with at least one bullet,
\* and after the Council Notes header has the entry of Codex, then of
\* Claude, then of Gemini, each with the member's text, error or not
C23_HeuristicWellFormed ==
  Synthesized =>
    /\ StartsWith(final, "## Result\n")
    /\ LineOf(final, "### Recommended next steps") > 0
    /\ BulletsOf(final) # <<>>
    /\ \E h \in Positions(final, "\n## Council Notes") :
         \E a \in Positions(final, "\n--- Codex ---\n" \o council.codex) :
           \E b \in Positions(final, "\n--- Claude ---\n" \o council.claude) :
             \E c \in Positions(final, "\n--- Gemini ---\n" \o council.gemini) :
               /\ h < a
               /\ a + Len(council.codex) < b
               /\ b + Len(council.claude) < c
               /\ c + Len("\n--- Gemini ---\n" \o council.gemini) - 1 = Len(final)

\* two members failed, one answered in prose, and the heuristic strategy
\* has produced its output
C23_Witness ==
  /\ Synthesized
  /\ council.codex = "ERROR: timeout"
  /\ council.claude = "The change looks safe."
  /\ council.gemini = "ERROR: timeout"

\* the actionable lines that mergeHeuristically collects from the texts
ActionableLines ==
  CollectActionable(
    TrimmedNonEmpty(SplitLines(
      council.codex \o "\n" \o council.claude \o "\n" \o council.gemini)),
    <<>>)

\* the indices of arr whose element is not, letter case aside, an earlier
\* element of arr
FirstSeen(arr) ==
  {i \in 1..Len(arr) :
     \A j \in 1..(i - 1) : toLowerCase(arr[j]) # toLowerCase(arr[i])}

\* C24: of the actionable lines collected, the bullet list has exactly
\* those that are not a repetition, letter case aside, of an earlier line:
\* of lines that differ only by case the first one encountered, and the
\* bullets are in the order in which the lines were first seen
C24_DedupeByCase ==
  (Synthesized /\ ActionableLines # <<>>) =>
    LET keep == FirstSeen(ActionableLines)
        bullets == BulletsOf(final)
    IN /\ Len(bullets) = Cardinality(keep)
       /\ \A k \in 1..Len(bullets) :
            \E i \in keep :
              /\ Cardinality({j \in keep : j < i}) = k - 1
              /\ bullets[k] = ActionableLines[i]

\* the three members gave the same actionable line in three letter cases,
\* and a fourth line after it
C24_Witness ==
  /\ Synthesized
  /\ council.codex = "RUN THE TESTS."
  /\ council.claude = "run the tests.\n- Open src/parser.ts"
  /\ council.gemini = "Run the tests.\nThe parser is fine."
  /\ BulletsOf(final) = <<"RUN THE TESTS.", "- Open src/parser.ts">>

(***************************************************************************)
(* Properties of synthesizeWithOllama (checked under SpecOllama)           *)
(***************************************************************************)
\* C25: once the request is sent, synthesizeWithOllama settles, whether
\* or not the service ever answers
C25_RemoteCallSettles ==
  (ollama.at = "fetching") ~> (ollama.at = "settled")

\* url parses as a URL whose scheme is http or https
HasHttpScheme(url) ==
  LET u == toLowerCase(StrTrim(url))
  IN \/ StartsWith(u, "http://") /\ Len(u) > Len("http://")
     \/ StartsWith(u, "https://") /\ Len(u) > Len("https://")

\* C26: a request is only ever sent to the configured base URL when that
\* parses with scheme http or https; otherwise it goes to the fixed local
\* default and a warning is logged
C26_BaseUrlValidated ==
  ollama.at # "idle" =>
    IF HasHttpScheme(ollama.baseUrl)
    THEN HasHttpScheme(ollama.url)
    ELSE /\ ollama.url = "http://127.0.0.1:11434/api/generate"
         /\ \E line \in ollama.log : line # "Ollama synth request"

ContractGivenToMembers ==
  /\ Contains(councilPrompt, responseContract)
  /\ \A m \in Members : run[m].spawns > 0 => Contains(run[m].stdin, responseContract)

HasProgressed(m) ==
  /\ run[m].spawns = 1
  /\ run[m].resolved \/ run[m].events # <<>> \/ run[m].stdout # "" \/ run[m].stderr # ""

\* every scheduled member has been handed to the runner, and its process
\* spawned unless its command is refused
AllStarted ==
  \A n \in ScheduledNow :
    /\ run[n].called = 1
    /\ ~ConfiguredInvalid(n) => run[n].spawns = 1

\* C29: when runCouncil waits for the member runs, and whenever anything
\* has come of one member's process, every scheduled member has been
\* started: no start comes after another member's completion
C29_AllStartedBeforeAnyAwaited ==
  (pc = "await" \/ \E m \in Members : HasProgressed(m)) => AllStarted

\* the three processes have been spawned, runCouncil waits, and nothing
\* has come of any of them yet
C29_Witness ==
  /\ pc = "await"
  /\ \A m \in Members : run[m].spawns = 1 /\ ~HasProgressed(m)

(***************************************************************************)
(* Termination of runCouncil (checked under SpecLive)                      *)
(***************************************************************************)
\* a memory read or write of the call has thrown, which ends the call
\* with a rejection (the cases of C17 and C18)
MemoryThrew == memErrors \cap {"read", "write"} # {}

\* C30: with the timers firing and the program's own steps taken, every
\* runCouncil call whose memory operations do not throw comes to return a
\* string, even if no member process ever exits and the synthesis backend
\* never answers
C30_RunCouncilReturns ==
  <>(pc = "done" \/ MemoryThrew)

(***************************************************************************)
(* The caps of the heuristic strategy (checked under SpecLong)             *)
(***************************************************************************)
\* every actionable line of the three texts, in the order met: the lines
\* of codex, then of claude, then of gemini
EncounterOrder ==
  SelectSeq(
    TrimmedNonEmpty(SplitLines(
      council.codex \o "\n" \o council.claude \o "\n" \o council.gemini)),
    looksActionable)

\* C31: the next-steps list (the bullets made of member lines: with no
\* actionable line the section holds its one fixed bullet instead) has at
\* most 12 bullets, and every bullet is one of the first 18 actionable
\* lines in encounter order; an actionable line met after the 18th is not
\* listed
C31_CapsOnNextSteps ==
  (Synthesized /\ EncounterOrder # <<>>) =>
    LET bullets == BulletsOf(final)
        first18 == SubSeq(EncounterOrder, 1,
                          IF Len(EncounterOrder) < 18 THEN Len(EncounterOrder) ELSE 18)
    IN /\ Len(bullets) <= 12
       /\ \A k \in 1..Len(bullets) : \E i \in 1..Len(first18) : bullets[k] = first18[i]
       /\ \A i \in 19..Len(EncounterOrder) :
            (\A j \in 1..18 : EncounterOrder[j] # EncounterOrder[i]) =>
              \A k \in 1..Len(bullets) : bullets[k] # EncounterOrder[i]

\* 24 actionable lines were met, the first 18 of them hold 11 different
\* steps, and the list has these 11 and none of the later ones
C31_Witness ==
  /\ Synthesized
  /\ council.codex = NumberedLines("Add", "a", 7)
  /\ council.claude = NumberedLines("ADD", "a", 7) \o "\n" \o NumberedLines("Check", "c", 3)
  /\ council.gemini = NumberedLines("Run", "b", 7)
  /\ Len(EncounterOrder) = 24
  /\ Len(BulletsOf(final)) = 11
  /\ BulletsOf(final)[11] = "Run b1"

\* 21 actionable lines were met, the first 18 of them all different, and
\* the list stops at the 12th
C31_WitnessTwelve ==
  /\ Synthesized
  /\ council.codex = NumberedLines("Add", "a", 7)
  /\ council.claude = NumberedLines("Run", "b", 7)
  /\ council.gemini = NumberedLines("Add", "a", 7)
  /\ Len(BulletsOf(final)) = 12

(***************************************************************************)
(* The notes budget (checked under SpecBudget)                             *)
(***************************************************************************)
\* the first position of text at which p occurs, 0 if there is none
FirstPosition(text, p) ==
  LET at == Positions(text, p)
  IN IF at = {} THEN 0 ELSE CHOOSE i \in at : \A j \in at : i <= j

\* what the Council Notes section of final shows between the label of a
\* member and the next label (or the end)
RenderedNote(label, nextLabel) ==
  LET from == FirstPosition(final, "\n--- " \o label \o " ---\n") + Len(label) + 10
      to == IF nextLabel = "" THEN Len(final)
            ELSE FirstPosition(final, "\n\n--- " \o nextLabel \o " ---\n") - 1
  IN SubSeq(final, from, to)

\* text is shown within the budget of 1800 characters: as it is if it has
\* at most 1800, else cut, marked with an ellipsis, and no longer than 1800
WithinBudget(text, shown) ==
  IF Len(text) <= 1800 THEN shown = text
  ELSE /\ Len(shown) <= 1800
       /\ Len(shown) >= 3
       /\ SubSeq(shown, Len(shown) - 2, Len(shown)) = "..."
       /\ StartsWith(text, SubSeq(shown, 1, Len(shown) - 3))

\* C32: in the Council Notes each member's text is shown within the budget
\* of 1800 characters: unchanged if it has at most 1800, else cut and marked
\* with an ellipsis, the ellipsis included in the 1800
C32_NotesWithinBudget ==
  Synthesized =>
    /\ WithinBudget(council.codex, RenderedNote("Codex", "Claude"))
    /\ WithinBudget(council.claude, RenderedNote("Claude", "Gemini"))
    /\ WithinBudget(council.gemini, RenderedNote("Gemini", ""))

(***************************************************************************)
(* Properties of the wrapper script (checked under SpecScript)             *)
(***************************************************************************)
\* the script has gone past its invocations of the target command
PastInvocations == script.at \in {"emit", "exited"} /\ script.invocations # <<>>

\* C33: the script invokes the target command at most twice: first with
\* the captured payload on standard input; a second time, with the payload
\* as one argument, if and only if the first invocation exited nonzero; the
\* diagnostic lines with both exit codes and a configuration key are
\* appended if and only if both exited nonzero; and what the script writes
\* out is the output of the last invocation made
C33_RetryOnceThenDiagnose ==
  LET inv == script.invocations
      last == inv[Len(inv)]
  IN /\ Len(inv) <= 2
     /\ Len(script.codes) = Len(inv)
     /\ inv # <<>> =>
          /\ inv[1].mode = "stdin"
          /\ inv[1].stdin = script.payload
     /\ Len(inv) = 2 =>
          /\ script.codes[1] # 0
          /\ inv[2].mode = "arg"
          /\ inv[2].arg = script.payload
          /\ inv[2].stdin = ""
     /\ PastInvocations =>
          /\ (Len(inv) = 2) <=> (script.codes[1] # 0)
          /\ script.diagnosed <=> (Len(inv) = 2 /\ script.codes[1] # 0 /\ script.codes[2] # 0)
          /\ IF script.diagnosed
             THEN /\ StartsWith(script.out, last.output)
                  /\ Positions(script.out,
                       "Exit: " \o ToString(script.codes[1]) \o " / "
                         \o ToString(script.codes[2]) \o "\n") # {}
                  /\ \E k \in Members :
                       Positions(script.out, "unifiedAiCouncil.cli." \o k \o ".command") # {}
             ELSE script.out = last.output
     /\ (script.at = "exited" /\ inv # <<>>) => script.stdout = script.out

\* both invocations were made and failed, with 1 and with 127, and the
\* script has written its output
C33_Witness ==
  /\ script.at = "exited"
  /\ Len(script.invocations) = 2
  /\ script.codes = <<1, 127>>
  /\ script.diagnosed
  /\ script.invocations[1].output = "usage: bad flag"
  /\ script.invocations[2].output = "answer\n"
  /\ StartsWith(script.stdout, "answer\n[Unified AI Council] CLI invocation failed")

(***************************************************************************)
(* The request of the remote strategy (checked under SpecLive)             *)
(***************************************************************************)
\* runCouncil has sent its generation request
RequestSent == pc \in {"synth", "persist", "done", "rejected"} /\ ollama.at # "idle"

\* C34: the generation request sent during runCouncil carries the model
\* name of the settings and their three sampling parameters: temperature,
\* top_p and num_predict (the maximum output tokens)
C34_RequestCarriesSampling ==
  RequestSent =>
    /\ ollama.body.model = ollama.config.model
    /\ DOMAIN ollama.body.options = {"temperature", "top_p", "num_predict"}
    /\ ollama.body.options["temperature"] = ollama.config.temperature
    /\ ollama.body.options["top_p"] = ollama.config.topP
    /\ ollama.body.options["num_predict"] = ollama.config.maxTokens

(***************************************************************************)
(* The memory option and the members' prompt (checked under Spec)          *)
(***************************************************************************)
\* C35: with options.memory on, the prompt given to every scheduled member
\* has in it the memory context and the workspace hints that were
\* gathered, whatever options.architect is; with options.memory off both
\* contexts are empty strings
C35_MemoryIndependentOfArchitect ==
  /\ (pc \notin {"idle", "gather"} /\ ~opts.memory) =>
       (memoryContext = "" /\ fileContext = "")
  /\ opts.memory =>
       \A m \in Members :
         run[m].spawns = 1 =>
           /\ Contains(run[m].stdin, memoryContext)
           /\ Contains(run[m].stdin, fileContext)

(***************************************************************************)
(* The kill of a member run (checked under SpecRunner)                     *)
(***************************************************************************)
\* C36: the child of a run is killed at most once, and only when the timer
\* was the first of the three events; once 'close' or 'error' has settled
\* the run its timer is cleared, never fires, and no kill is issued
C36_KilledOnlyByWinningTimeout ==
  \A m \in Members :
    LET r == run[m]
    IN /\ r.kills <= 1
       /\ r.kills = 1 => (r.events # <<>> /\ r.events[1] = "timeout")
       /\ (r.events # <<>> /\ r.events[1] \in {"close", "error"}) =>
            /\ r.timer = "cleared"
            /\ r.kills = 0
            /\ \A i \in 1..Len(r.events) : r.events[i] # "timeout"

\* a run was settled by 'error', its child closed afterwards, and it was
\* never killed
C36_Witness ==
  \E m \in Members :
    /\ run[m].events = <<"error", "close">>
    /\ run[m].status = "rejected"
    /\ run[m].timer = "cleared"
    /\ run[m].kills = 0

(***************************************************************************)
(* The coordinator after its disposal (checked under SpecDispose)          *)
(***************************************************************************)
\* C37: once dispose has been called the coordinator holds no embedded
\* generator: a getEmbeddedLlm of a runCouncil call that comes after the
\* disposal constructs and keeps none
C37_NoGeneratorAfterDispose ==
  disposed => embeddedLlm = "null"

(***************************************************************************)
(* A disposal while a load is in flight (checked under SpecLlm)            *)
(***************************************************************************)
\* C38: when dispose() was the last call made on the EmbeddedLlm and a
\* load that was in flight at that disposal completes next, the disposal
\* holds: the load stores neither its generator nor its error, so that
\* isLoaded() and hasError() stay false until a new call is made
C38_DisposalHoldsOverLoad ==
  [][(lastCall = "dispose" /\ lastCall' = "load") =>
       (generator' = 0 /\ loadError' = 0)]_vars

(***************************************************************************)
(* Failed members and the next-steps list (checked under Spec)             *)
(***************************************************************************)
\* the members whose slot holds the text of a failure
FailedMembers == {m \in Members : StartsWith(council[m], "ERROR: ")}

C40_ExecutesValidatedCommand ==
  /\ ~(script.at = "exited" /\ script.exit = 2)
  /\ \A i \in 1..Len(script.invocations) :
       script.invocations[i].words = ShellWords(script.cli).words
====
